---- MODULE Spec2Model ----
(***************************************************************************)
(* Forward-chaining materialisation of axiolotl-inference.js               *)
(* (inferUntilStable and its helpers), together with the conversions of    *)
(* comunica-indexeddb-bridge.js and the triple store of                    *)
(* indexeddb-triplestore.js that a run goes through.                       *)
(*                                                                         *)
(* A term is a record [k, v]: k is the RDF/JS termType, v the .value.      *)
(* A statement / quad is a record [s, p, o, g]; g = "" is the default      *)
(* graph.  Literals are modelled without language tag (their datatype is   *)
(* always present, as rdflib.js sets xsd:string by default).               *)
(***************************************************************************)
EXTENDS Integers, Sequences, FiniteSets, TLC

\* ---------------------------------------------------------------------------
\* TBox IRIs (axiolotl-inference.js, lines 52-59)
\* ---------------------------------------------------------------------------
RDFS_SC == "http://www.w3.org/2000/01/rdf-schema#subClassOf"
RDFS_SP == "http://www.w3.org/2000/01/rdf-schema#subPropertyOf"
OWL_INV == "http://www.w3.org/2002/07/owl#inverseOf"
OWL_SYM == "http://www.w3.org/2002/07/owl#SymmetricProperty"
OWL_TRANS == "http://www.w3.org/2002/07/owl#TransitiveProperty"
RDFS_DOMAIN == "http://www.w3.org/2000/01/rdf-schema#domain"
RDFS_RANGE == "http://www.w3.org/2000/01/rdf-schema#range"
RDF_TYPE == "http://www.w3.org/1999/02/22-rdf-syntax-ns#type"

\* ---------------------------------------------------------------------------
\* Terms
\* ---------------------------------------------------------------------------
sym(v) == [k |-> "NamedNode", v |-> v]
blankNode(v) == [k |-> "BlankNode", v |-> v]
literal(v) == [k |-> "Literal", v |-> v]

\* $rdf.st(s, p, o): a statement without graph
st(s, p, o) == [s |-> s, p |-> p, o |-> o, g |-> ""]

\* The string values that occur in the model, classified the way the regular
\* expressions of the source classify them.
TBoxIris == {RDFS_SC, RDFS_SP, OWL_INV, OWL_SYM, OWL_TRANS, RDFS_DOMAIN, RDFS_RANGE, RDF_TYPE}
UrnValues == {"urn:A", "urn:B", "urn:C", "urn:x", "urn:y", "urn:z", "urn:p", "urn:q", "urn:g1"}
\* not absolute: a CURIE, a plain word, and two bnode-looking ids
CurieValues == {"skos:D"}
WordValues == {"lit"}
BnodeLikeValues == {"b1", "_:b2"}

\* isAbsoluteIri(s): a known scheme followed by ':' (or '://'), no whitespace
isAbsoluteIri(s) == s \in TBoxIris \cup UrnValues

\* looksLikeBnodeId(v): starts with "_:" or "_g_", or is a letter followed by digits
looksLikeBnodeId(v) == v \in BnodeLikeValues

\* normalizeIriString(s): trim and strip one pair of surrounding angle brackets
normalizeIriString(s) == IF s = "<urn:A>" THEN "urn:A" ELSE s

\* String(v).replace(/^_:/, '').replace(/^_g_/, '')
stripBnodePrefix(v) == IF v = "_:b2" THEN "b2" ELSE v

\* rdflib helpers used when loading the persisted records
asSubjectTerm(t) ==
  IF isAbsoluteIri(t.v) THEN sym(t.v)
  ELSE blankNode(IF stripBnodePrefix(t.v) = "" THEN "s" ELSE stripBnodePrefix(t.v))

\* asPredicateTerm throws for a non-absolute value: the record is skipped
predicateLoadable(t) == isAbsoluteIri(t.v)
asPredicateTerm(t) == sym(t.v)

asObjectTerm(t) ==
  IF t.k = "NamedNode" /\ isAbsoluteIri(t.v) THEN sym(t.v)
  ELSE IF t.k = "BlankNode" \/ looksLikeBnodeId(t.v)
       THEN blankNode(IF stripBnodePrefix(t.v) = "" THEN "o" ELSE stripBnodePrefix(t.v))
  ELSE IF t.k = "Literal" THEN literal(t.v)    \* lang or datatype recorded
  ELSE IF isAbsoluteIri(t.v) THEN sym(t.v)
  ELSE literal(t.v)

\* RDF/JS (N3) helpers used by the seed phase; v and type come from an rdflib term
asRdfjsSubject(t) ==
  IF isAbsoluteIri(normalizeIriString(t.v)) THEN sym(normalizeIriString(t.v))
  ELSE blankNode(stripBnodePrefix(t.v))

asRdfjsPredicate(t) == sym(normalizeIriString(t.v))

asRdfjsObject(t) ==
  IF t.k = "NamedNode" /\ isAbsoluteIri(normalizeIriString(t.v)) THEN sym(normalizeIriString(t.v))
  ELSE IF t.k = "BlankNode" \/ looksLikeBnodeId(t.v) THEN blankNode(stripBnodePrefix(t.v))
  ELSE IF t.k = "Literal" THEN literal(t.v)    \* datatype is always set on an rdflib literal
  ELSE IF isAbsoluteIri(normalizeIriString(t.v)) THEN sym(normalizeIriString(t.v))
  ELSE literal(t.v)

\* Converters local to inferUntilStable, used by enqueue
toNamed(iri) == sym(iri)
toSubject(t) == IF t.k = "NamedNode" THEN sym(t.v) ELSE blankNode(t.v)
toObject(t) ==
  IF t.k = "NamedNode" THEN sym(t.v)
  ELSE IF t.k = "BlankNode" THEN blankNode(t.v)
  ELSE literal(t.v)

\* Statement#toNT(): the canonical key; the graph is not part of it
termToNT(t) ==
  IF t.k = "NamedNode" THEN <<"<", t.v, ">">>
  ELSE IF t.k = "BlankNode" THEN <<"_:", t.v>>
  ELSE <<"\"", t.v, "\"">>

toNT(s) == <<termToNT(s.s), termToNT(s.p), termToNT(s.o)>>

\* ---------------------------------------------------------------------------
\* Index construction
\* ---------------------------------------------------------------------------
\* A JS Map<string, Set<string>> is a function whose DOMAIN is the key set.
mapGet(M, key) == IF key \in DOMAIN M THEN M[key] ELSE {}

\* mapFromQuads(store, predIRI): adjacency over all graphs, by .value
mapFromQuads(store, predIRI) ==
  [a \in {q.s.v : q \in {r \in store : r.p = sym(predIRI)}} |->
     {q.o.v : q \in {r \in store : r.p = sym(predIRI) /\ r.s.v = a}}]

\* The while loop of transitiveClosure for one child: stack, seenLocal
RECURSIVE closureWalk(_, _, _)
closureWalk(edges, stack, seenLocal) ==
  IF stack = {} THEN seenLocal
  ELSE LET p == CHOOSE x \in stack : TRUE
       IN IF p \in seenLocal
          THEN closureWalk(edges, stack \ {p}, seenLocal)
          ELSE closureWalk(edges, (stack \ {p}) \cup mapGet(edges, p), seenLocal \cup {p})

\* variant: only the direct parents, the walk is dropped
transitiveClosureDirectOnly(edges) == edges

transitiveClosure(edges) ==
  [child \in DOMAIN edges |-> closureWalk(edges, edges[child], {})]

\* new Set(getQuads(null, RDF_TYPE, cls, null).map(q => q.subject.value))
typedSubjects(store, cls) ==
  {q.s.v : q \in {r \in store : r.p = sym(RDF_TYPE) /\ r.o = sym(cls)}}

\* variant: only inversePairs.get(p).add(inv) is performed
buildInversePairsOneWay(store) ==
  LET invQuads == {r \in store : r.p = sym(OWL_INV)}
  IN [k \in {q.s.v : q \in invQuads} |-> {q.o.v : q \in {r \in invQuads : r.s.v = k}}]

\* inversePairs: both directions are recorded for each owl:inverseOf quad
buildInversePairs(store) ==
  LET invQuads == {r \in store : r.p = sym(OWL_INV)}
      keys == {q.s.v : q \in invQuads} \cup {q.o.v : q \in invQuads}
  IN [k \in keys |-> {q.o.v : q \in {r \in invQuads : r.s.v = k}}
                     \cup {q.s.v : q \in {r \in invQuads : r.o.v = k}}]

\* ---------------------------------------------------------------------------
\* Local expanders (pure; a batch is a set of rdflib statements)
\* ---------------------------------------------------------------------------
\* variant: the test of the value is dropped
liftableAlways(v) == TRUE

\* if (typeof isAbsoluteIri === 'function' && !isAbsoluteIri(sup)) { _skipped++; continue; }
liftable(v) == isAbsoluteIri(v)

\* The number of (statement, value) pairs an expander skips and counts
skipped(batch, M, key(_)) ==
  Cardinality({pr \in batch \X UNION {M[c] : c \in DOMAIN M} :
                 pr[2] \in mapGet(M, key(pr[1])) /\ ~liftable(pr[2])})

expandTypesWithClosure(newTypes, cSupers) ==
  {st(s.s, sym(RDF_TYPE), sym(sup)) :
     <<s, sup>> \in {pr \in newTypes \X UNION {cSupers[c] : c \in DOMAIN cSupers} :
                        /\ pr[2] \in mapGet(cSupers, pr[1].o.v)
                        /\ liftable(pr[2])}}

expandPropsWithClosure(newProps, pSupers) ==
  {st(s.s, sym(sup), s.o) :
     <<s, sup>> \in {pr \in newProps \X UNION {pSupers[c] : c \in DOMAIN pSupers} :
                        /\ pr[2] \in mapGet(pSupers, pr[1].p.v)
                        /\ liftable(pr[2])}}

applyInverseAndSymmetric(newProps, symProps, invPairs) ==
  {st(s.o, sym(s.p.v), s.s) : s \in {b \in newProps : b.p.v \in symProps}}
  \cup
  {st(s.o, sym(inv), s.s) :
     <<s, inv>> \in {pr \in newProps \X UNION {invPairs[c] : c \in DOMAIN invPairs} :
                        pr[2] \in mapGet(invPairs, pr[1].p.v)}}

applyDomainRange(newProps, dMap, rMap) ==
  {st(s.s, sym(RDF_TYPE), sym(d)) :
     <<s, d>> \in {pr \in newProps \X UNION {dMap[c] : c \in DOMAIN dMap} :
                      /\ pr[2] \in mapGet(dMap, pr[1].p.v)
                      /\ liftable(pr[2])}}
  \cup
  {st(s.o, sym(RDF_TYPE), sym(r)) :
     <<s, r>> \in {pr \in newProps \X UNION {rMap[c] : c \in DOMAIN rMap} :
                      /\ pr[2] \in mapGet(rMap, pr[1].p.v)
                      /\ liftable(pr[2])}}

\* getQuads(term, p, null, null) matches by term identity (kind and value);
\* the emitted end point is rebuilt with $rdf.sym(<value>)
applyTransitiveProps(newPropsBatch, transProps, store) ==
  LET batch == {b \in newPropsBatch : b.p.v \in transProps}
  IN {st(s.s, sym(s.p.v), sym(yz.o.v)) :
        <<s, yz>> \in {pr \in batch \X store :
                          pr[2].s = pr[1].o /\ pr[2].p = sym(pr[1].p.v)}}
     \cup
     {st(sym(wx.s.v), sym(s.p.v), s.o) :
        <<s, wx>> \in {pr \in batch \X store :
                          pr[2].o = pr[1].s /\ pr[2].p = sym(pr[1].p.v)}}

\* selectUnseen(stmts, seenNT).$new
selectUnseen(stmts, seenNT) == {s \in stmts : toNT(s) \notin seenNT}

\* ---------------------------------------------------------------------------
\* Rule catalogue and the external evaluator
\* ---------------------------------------------------------------------------
RuleCatalogue ==
  {"inverse", "subpropertyof", "subclassof", "domain", "range", "transitive", "symmetric"}

\* getConstructQueryForRule(rule) = PREFIXES + (RULES[rule] || ''): the text is
\* a sequence of its parts, so the empty string is the empty sequence
getConstructQueryForRule(rule) ==
  <<"PREFIXES">> \o (IF rule \in RuleCatalogue THEN <<rule>> ELSE <<>>)

\* JS truthiness of a string
isTruthy(text) == Len(text) > 0

\* FILTER NOT EXISTS { { ?S ?P ?O } UNION { GRAPH ?g { ?S ?P ?O } } }
notExists(store, S, P, O) == \A r \in store : ~(r.s = S /\ r.p = P /\ r.o = O)

\* A CONSTRUCT template instance is a triple only with a non-literal subject
\* and an IRI predicate
validTriple(S, P, O) == S.k # "Literal" /\ P.k = "NamedNode"

\* The WHERE clauses of RULES, evaluated over every graph of the store;
\* each result is a triple <<S, P, O>> of RDF/JS terms
\* variant: only the second branch of the UNION
matchInverseSecondBranchOnly(store) ==
  {<<xy.o, iv.s, xy.s>> :
     <<xy, iv>> \in {pr \in store \X store :
                       pr[2].p = sym(OWL_INV) /\ pr[2].o = pr[1].p}}

matchInverse(store) ==
  {<<xy.o, iv.o, xy.s>> :
     <<xy, iv>> \in {pr \in store \X store :
                       pr[2].p = sym(OWL_INV) /\ pr[2].s = pr[1].p}}
  \cup
  {<<xy.o, iv.s, xy.s>> :
     <<xy, iv>> \in {pr \in store \X store :
                       pr[2].p = sym(OWL_INV) /\ pr[2].o = pr[1].p}}

matchDomain(store) ==
  {<<xy.s, sym(RDF_TYPE), d.o>> :
     <<xy, d>> \in {pr \in store \X store :
                      pr[2].p = sym(RDFS_DOMAIN) /\ pr[2].s = pr[1].p}}

\* variant: the range class is given to the subject, CONSTRUCT { ?x rdf:type ?range }
matchRangeOnSubject(store) ==
  {<<xy.s, sym(RDF_TYPE), r.o>> :
     <<xy, r>> \in {pr \in store \X store :
                      pr[2].p = sym(RDFS_RANGE) /\ pr[2].s = pr[1].p}}

matchRange(store) ==
  {<<xy.o, sym(RDF_TYPE), r.o>> :
     <<xy, r>> \in {pr \in store \X store :
                      pr[2].p = sym(RDFS_RANGE) /\ pr[2].s = pr[1].p}}

\* variant: the second pattern is joined on its object, ?x ?p ?y . ?z ?p ?y
matchTransitiveWrongJoin(store) ==
  {<<xy.s, xy.p, yz.o>> :
     <<xy, yz>> \in {pr \in store \X store :
                       /\ pr[2].o = pr[1].o /\ pr[2].p = pr[1].p
                       /\ \E t \in store : t.s = pr[1].p /\ t.p = sym(RDF_TYPE)
                                           /\ t.o = sym(OWL_TRANS)}}

matchTransitive(store) ==
  {<<xy.s, xy.p, yz.o>> :
     <<xy, yz>> \in {pr \in store \X store :
                       /\ pr[2].s = pr[1].o /\ pr[2].p = pr[1].p
                       /\ \E t \in store : t.s = pr[1].p /\ t.p = sym(RDF_TYPE)
                                           /\ t.o = sym(OWL_TRANS)}}

\* variant: the template is not mirrored, CONSTRUCT { ?x ?p ?y }
matchSymmetricUnswapped(store) ==
  {<<xy.s, xy.p, xy.o>> :
     xy \in {q \in store : \E t \in store : t.s = q.p /\ t.p = sym(RDF_TYPE)
                                            /\ t.o = sym(OWL_SYM)}}

matchSymmetric(store) ==
  {<<xy.o, xy.p, xy.s>> :
     xy \in {q \in store : \E t \in store : t.s = q.p /\ t.p = sym(RDF_TYPE)
                                            /\ t.o = sym(OWL_SYM)}}

\* subclassof and subpropertyof also have queries; inferUntilStable filters
\* those two identifiers out before the evaluator is called
matchRule(rule, store) ==
  CASE rule = "inverse" -> matchInverse(store)
    [] rule = "domain" -> matchDomain(store)
    [] rule = "range" -> matchRange(store)
    [] rule = "transitive" -> matchTransitive(store)
    [] rule = "symmetric" -> matchSymmetric(store)
    [] OTHER -> {}

\* applyConstructWithComunica: quads of the result stream -> rdflib statements
constructToStatement(tr) ==
  st(IF tr[1].k = "NamedNode" THEN sym(tr[1].v) ELSE blankNode(tr[1].v),
     sym(tr[2].v),
     IF tr[3].k = "NamedNode" THEN sym(tr[3].v)
     ELSE IF tr[3].k = "BlankNode" THEN blankNode(tr[3].v)
     ELSE literal(tr[3].v))

\* A query text without a CONSTRUCT clause is not a quads query: the engine rejects
queryHasConstruct(query) == Len(query) = 2

applyConstructWithComunica(query, store) ==
  {constructToStatement(tr) :
     tr \in {m \in matchRule(query[2], store) :
               validTriple(m[1], m[2], m[3]) /\ notExists(store, m[1], m[2], m[3])}}

\* ---------------------------------------------------------------------------
\* Persisted statement store (IndexedDB 'triples', keyPath subject, predicate,
\* object, graph) and its conversions
\* ---------------------------------------------------------------------------
recordKey(r) == <<r.s.v, r.p.v, r.o.v, r.g>>

\* loadGraphFromIndexedDB: records whose predicate is not absolute are skipped
loadGraphFromIndexedDB(db) ==
  {[s |-> asSubjectTerm(r.s), p |-> asPredicateTerm(r.p), o |-> asObjectTerm(r.o), g |-> r.g] :
     r \in {x \in db : predicateLoadable(x.p)}}

\* formulaToRdfjsStore
formulaToRdfjsStore(graph) ==
  {[s |-> IF x.s.k = "NamedNode" THEN sym(x.s.v) ELSE blankNode(x.s.v),
    p |-> sym(x.p.v),
    o |-> toObject(x.o),
    g |-> x.g] : x \in graph}

\* storeTriplesInNamedGraph: put() replaces the record with the same key; when
\* several statements of one call share a key the last one put wins
putOutcomes(db, stmts) ==
  LET unique == {r \in stmts : \A r2 \in stmts : recordKey(r2) = recordKey(r) => r2 = r}
      dup == stmts \ unique
      picks == {R \in SUBSET dup :
                  \A r \in dup : Cardinality({r2 \in R : recordKey(r2) = recordKey(r)}) = 1}
  IN {{r \in db : \A n \in stmts : recordKey(n) # recordKey(r)} \cup unique \cup R : R \in picks}

\* makeNamedGraphIRI(base): base/<timestamp>/<uuid>, a fresh IRI at each call
\* (n tells the calls apart)
makeNamedGraphIRI(base, n) ==
  IF base = "urn:graph:inferred"
  THEN (IF n = 1 THEN "urn:graph:inferred/t1/u1" ELSE "urn:graph:inferred/t2/u2")
  ELSE (IF n = 1 THEN "urn:graph:auto/t1/u1" ELSE "urn:graph:auto/t2/u2")

\* Lines 826-830 of stashGraphToIndexedDB: the body of `if (replace && iri)`
\* holds only comments, the target graph is left as it is
\* variant: the rows of the target graph are deleted (clearNamedGraph)
clearForReplaceDeleting(db, replace, iri) ==
  IF replace /\ iri # "" THEN {r \in db : r.g # iri} ELSE db

clearForReplace(db, replace, iri) == db

\* stashGraphToIndexedDB(graph, mode, graphIRI, autoBase, {replace}): the
\* possible contents of the store afterwards; "" stands for null / no graph
stashGraphToIndexedDB(db, graph, mode, graphIRI, autoBase, n, replace) ==
  LET iri == IF mode = "named"
             THEN (IF graphIRI # "" THEN graphIRI ELSE makeNamedGraphIRI(autoBase, n))
             ELSE ""
      prepared == {[s |-> x.s, p |-> x.p, o |-> x.o, g |-> iri] : x \in graph}
  IN putOutcomes(clearForReplace(db, replace, iri), prepared)

\* ---------------------------------------------------------------------------
\* State
\* ---------------------------------------------------------------------------
VARIABLES
  stored,           \* persisted statement store
  rules,            \* argument of inferUntilStable
  run,              \* 1: first run, 2: run on the store plus the first overlay
  pc,               \* position of inferUntilStable
  baseGraph,        \* rdflib working graph
  seen,             \* Set of toNT() keys
  overlayStore,     \* N3.Store of the derived quads
  rdfjsStore,       \* N3.Store handed to the evaluator
  classSupers, propSupers, domainMap, rangeMap,
  symmetricProps, transitiveProps, inversePairs,
  workTypes, workProps,
  totalAdded, changed,
  ruleIdx,          \* index of the for..of loop over rulesFiltered
  beforeSeenSize,
  overlayGraph,     \* returned overlay (rdflib graph)
  seeded,           \* seedPropUnseen and seedTypeUnseen: the statements lifted by the seed
  evalCalls,        \* history: rules for which the evaluator was invoked, in order
  seenAtPassStart,  \* history: seen.size when the current outer pass began
  persist,          \* opt.persist of runInferenceOverlay
  storeWrites,      \* history: calls of storeTriplesInNamedGraph made by the current call
  rejected,         \* history: the evaluator rejected during the current run
  \* one call of transitiveClosure, step by step
  tcEdges,          \* its argument: Map<child, Set<parent>>
  tcPending,        \* entries of edges the for..of loop has not reached yet
  tcChild,          \* the entry being processed
  tcStack,          \* stack
  tcSeenLocal,      \* seenLocal
  tcClosure,        \* closure
  tcPc,             \* "notCalled", "for", "while", "returned"
  \* the history of the queues of one run
  placed,           \* statement -> number of times enqueue pushed it on a queue
  handedTypes,      \* statement -> number of batches given to expandTypesWithClosure
  handedProps,      \* statement -> number of batches given to the four others
  \* flushActiveWorkspace / wipeActiveWorkspace
  flushPc,          \* position of flushActiveWorkspace
  wipePc,           \* position of wipeActiveWorkspace
  deleteReq,        \* per database: state of the IDBOpenDBRequest of deleteDatabase
  innerPromise,     \* per database: the promise created inside deleteIndexedDBInstance
  outerPromise,     \* per database: the promise deleteIndexedDBInstance returns
  databases,        \* names of the IndexedDB databases that exist
  localStorageKeys, \* keys held by localStorage
  dispatched,       \* window events dispatched by wipeActiveWorkspace, in order
  statusButtons,    \* the two status buttons: "on" or "off"
  \* a direct call of stashGraphToIndexedDB
  stashArgs,        \* its arguments: graph, mode, graphIRI, replace
  stashPc,          \* "notCalled", "called", "done"
  storedBefore,     \* history: the store when the call was made
  \* the settings database and getSetting / saveSetting
  settingsDb,       \* "absent", "noStore" (database without object store) or "ready"
  settingsData,     \* the records of the Settings store: key -> value
  settingCall,      \* the last call: operation, key, what it met, its outcome
  settingCalls,     \* number of calls made
  \* replaceAngleIris
  textIn, iriMap, textOut, textPc,
  \* batchTransform
  files,            \* the input files
  batchOpts,        \* opts.replaceInsideLiterals
  batchIdx,         \* position of the for..of loop
  results,          \* the result list
  batchPc,
  \* the query page: the controls the run-query handler reads
  sparqlQuery,      \* value of #sparql-query: lines of tokens
  activePrefixes,   \* what getActivePrefixes returns
  modeWrite,        \* #mode-write is checked
  endpointRadio,    \* #endpoint-radio is checked
  writeActionRadio, \* value of the checked write-action radio
  executed,         \* history: the queries handed to an engine or an endpoint
  runClicks,        \* number of clicks on #run-query
  toast             \* the last toast shown by the handler

vars == <<stored, rules, run, pc, baseGraph, seen, overlayStore, rdfjsStore,
          classSupers, propSupers, domainMap, rangeMap,
          symmetricProps, transitiveProps, inversePairs,
          workTypes, workProps, totalAdded, changed, ruleIdx, beforeSeenSize,
          overlayGraph, seeded, evalCalls, seenAtPassStart,
          persist, storeWrites, rejected,
          tcEdges, tcPending, tcChild, tcStack, tcSeenLocal, tcClosure, tcPc,
          placed, handedTypes, handedProps,
          flushPc, wipePc, deleteReq, innerPromise, outerPromise, databases,
          localStorageKeys, dispatched, statusButtons,
          stashArgs, stashPc, storedBefore,
          settingsDb, settingsData, settingCall, settingCalls,
          textIn, iriMap, textOut, textPc,
          files, batchOpts, batchIdx, results, batchPc,
          sparqlQuery, activePrefixes, modeWrite, endpointRadio, writeActionRadio,
          executed, runClicks, toast>>

emptyMap == [k \in {} |-> {}]

\* The variables of a call of transitiveClosure
closureVars == <<tcEdges, tcPending, tcChild, tcStack, tcSeenLocal, tcClosure, tcPc>>

\* The variables of inferUntilStable and runInferenceOverlay
callVars == <<rules, run, pc, baseGraph, seen, overlayStore, rdfjsStore,
              classSupers, propSupers, domainMap, rangeMap,
              symmetricProps, transitiveProps, inversePairs,
              workTypes, workProps, totalAdded, changed, ruleIdx, beforeSeenSize,
              overlayGraph, seeded, evalCalls, seenAtPassStart,
              persist, storeWrites, rejected>>

\* What happened to the queues of the run so far
historyVars == <<placed, handedTypes, handedProps>>

runVars == <<callVars, closureVars, historyVars>>

inferVars == <<stored, runVars>>

\* indexeddb-triplestore.js, lines 6-10
DB_NAME == "inferenceDB"
SETTINGS_DB_NAME == "SPARQLSettings"
DbNames == {DB_NAME, SETTINGS_DB_NAME}

wipeVars == <<flushPc, wipePc, deleteReq, innerPromise, outerPromise, databases,
              localStorageKeys, dispatched, statusButtons>>

\* No flush has been asked for
wipeIdle ==
  /\ flushPc = "notCalled" /\ wipePc = "notCalled"
  /\ deleteReq = [n \in DbNames |-> "none"]
  /\ innerPromise = [n \in DbNames |-> "none"]
  /\ outerPromise = [n \in DbNames |-> "none"]
  /\ databases = DbNames /\ localStorageKeys = {} /\ dispatched = <<>>
  /\ statusButtons = "on"

stashVars == <<stashArgs, stashPc, storedBefore>>

noCall == [op |-> "none"]

stashIdle == stashArgs = noCall /\ stashPc = "notCalled" /\ storedBefore = {}

settingVars == <<settingsDb, settingsData, settingCall, settingCalls>>

settingIdle ==
  /\ settingsDb = "ready" /\ settingsData = emptyMap
  /\ settingCall = noCall /\ settingCalls = 0

textVars == <<textIn, iriMap, textOut, textPc>>

textIdle == textIn = <<>> /\ iriMap = emptyMap /\ textOut = <<>> /\ textPc = "notCalled"

batchVars == <<files, batchOpts, batchIdx, results, batchPc>>

batchIdle ==
  /\ files = <<>>
  /\ batchOpts = [adapter |-> FALSE, detectRdfMimeByName |-> FALSE]
  /\ batchIdx = 0 /\ results = <<>>
  /\ batchPc = "notCalled"

queryVars == <<sparqlQuery, activePrefixes, modeWrite, endpointRadio, writeActionRadio,
               executed, runClicks, toast>>

\* The query page as it is served: read mode, local database, nothing run
queryIdle ==
  /\ sparqlQuery = <<>> /\ activePrefixes = <<>>
  /\ modeWrite = FALSE /\ endpointRadio = FALSE /\ writeActionRadio = "preview"
  /\ executed = {} /\ runClicks = 0 /\ toast = "none"

\* The variables of the other components and of the step-by-step closure,
\* which the actions of the inference leave alone
otherCalls == <<wipeVars, stashVars, settingVars, textVars, batchVars, queryVars, closureVars>>

componentVars == <<otherCalls, historyVars>>

componentsIdle == wipeIdle /\ stashIdle /\ settingIdle /\ textIdle /\ batchIdle /\ queryIdle

indexVars == <<classSupers, propSupers, domainMap, rangeMap,
               symmetricProps, transitiveProps, inversePairs>>

\* rules.filter(r => r !== 'subclassof' && r !== 'subpropertyof')
rulesFiltered == SelectSeq(rules, LAMBDA r : r # "subclassof" /\ r # "subpropertyof")

\* ---------------------------------------------------------------------------
\* enqueue (the novelty gate), threaded over a context record
\* ---------------------------------------------------------------------------
context == [base |-> baseGraph, seen |-> seen, overlay |-> overlayStore,
            rdfjs |-> rdfjsStore, wt |-> workTypes, wp |-> workProps,
            placed |-> placed, handedTypes |-> handedTypes, handedProps |-> handedProps]

\* Counts are kept up to Many
Many == 2

counted(log, stmts) ==
  [s \in DOMAIN log \cup stmts |->
     LET before == IF s \in DOMAIN log THEN log[s] ELSE 0
     IN IF s \in stmts /\ before < Many THEN before + 1 ELSE before]

enqueueQuad(s) == [s |-> toSubject(s.s), p |-> toNamed(s.p.v), o |-> toObject(s.o), g |-> ""]

\* variant: the test of the seen index is dropped
passesGateAlways(seenNT, s) == TRUE

\* if (seen.has(nt)) continue
passesGate(seenNT, s) == toNT(s) \notin seenNT

\* variant: every statement goes to workProps
routedToTypesNever(s) == FALSE

\* if (s.predicate.value === RDF_TYPE) workTypes.push(s); else workProps.push(s)
routedToTypes(s) == s.p.v = RDF_TYPE

\* variant: the key is not recorded
seenAfterAddNone(seenNT, fresh) == seenNT

\* seen.add(nt)
seenAfterAdd(seenNT, fresh) == seenNT \cup {toNT(s) : s \in fresh}

\* F applied to the value of x, which is computed once
onValue(F(_), x) == CHOOSE r \in {F(v) : v \in {x}} : TRUE

enqueueFresh(c, fresh) ==
     [base |-> c.base \cup {st(s.s, s.p, s.o) : s \in fresh},
      seen |-> seenAfterAdd(c.seen, fresh),
      overlay |-> c.overlay \cup {enqueueQuad(s) : s \in fresh},
      rdfjs |-> c.rdfjs \cup {enqueueQuad(s) : s \in fresh},
      wt |-> c.wt \cup {s \in fresh : routedToTypes(s)},
      wp |-> c.wp \cup {s \in fresh : ~routedToTypes(s)},
      placed |-> counted(c.placed, fresh),
      handedTypes |-> c.handedTypes, handedProps |-> c.handedProps]

enqueue(c, stmts) ==
  onValue(LAMBDA cv : onValue(LAMBDA fresh : enqueueFresh(cv, fresh),
                              {s \in stmts : passesGate(cv.seen, s)}), c)

\* variant: the batch is copied and stays in the queue
afterSpliceKept(queue) == queue

\* queue.splice(0, queue.length) empties the queue
afterSplice(queue) == {}

\* One iteration of the while loop of processQueues
drainTypesOf(c) ==
  IF c.wt = {} THEN c
  ELSE enqueue([c EXCEPT !.wt = afterSplice(c.wt),
                         !.handedTypes = counted(c.handedTypes, c.wt)],
               expandTypesWithClosure(c.wt, classSupers))

drainTypes(c) == onValue(LAMBDA cv : drainTypesOf(cv), c)

drainPropsOf(c) ==
  IF c.wp = {} THEN c
  ELSE LET batch == c.wp
           extra1 == expandPropsWithClosure(batch, propSupers)
           extra2 == applyInverseAndSymmetric(batch, symmetricProps, inversePairs)
           extra3 == applyDomainRange(batch, domainMap, rangeMap)
           extra4 == applyTransitiveProps(batch, transitiveProps, c.rdfjs)
           c0 == [c EXCEPT !.wp = afterSplice(c.wp),
                           !.handedProps = counted(c.handedProps, batch)]
       IN enqueue(enqueue(enqueue(enqueue(c0, extra1), extra2), extra3), extra4)

drainProps(c) == onValue(LAMBDA cv : drainPropsOf(cv), c)

processQueuesStep(c) == drainProps(drainTypes(c))

\* ---------------------------------------------------------------------------
\* Inputs
\* ---------------------------------------------------------------------------
MaxInput == 3

rec(s, p, o) == [s |-> sym(s), p |-> sym(p), o |-> sym(o), g |-> ""]

\* Candidate records of the persisted store
Universe ==
  { rec("urn:A", RDFS_SC, "urn:B"),
    rec("urn:B", RDFS_SC, "urn:C"),
    rec("urn:x", RDF_TYPE, "urn:A"),
    rec("urn:p", RDF_TYPE, OWL_TRANS),
    rec("urn:p", RDF_TYPE, OWL_SYM),
    rec("urn:x", "urn:p", "urn:y"),
    rec("urn:y", "urn:p", "urn:z"),
    rec("urn:p", OWL_INV, "urn:q"),
    rec("urn:p", RDFS_DOMAIN, "urn:A"),
    rec("urn:p", RDFS_RANGE, "urn:B"),
    rec("urn:q", RDFS_SP, "urn:p"),
    rec("urn:A", "urn:q", "urn:B"),
    rec("urn:q", RDFS_SP, RDFS_SC) }

AllRules == <<"inverse", "subpropertyof", "subclassof", "domain", "range", "transitive", "symmetric">>

RuleLists ==
  { <<>>, AllRules,
    <<"inverse">>, <<"domain">>, <<"range">>, <<"transitive">>, <<"symmetric">>,
    <<"domain", "range">>, <<"subclassof", "subpropertyof">>,
    <<"bogus">>, <<"symmetric", "bogus">> }

RECURSIVE subsetsUpTo(_, _)
subsetsUpTo(S, n) ==
  IF n = 0 \/ S = {} THEN {{}}
  ELSE LET x == CHOOSE e \in S : TRUE
           rest == S \ {x}
       IN subsetsUpTo(rest, n) \cup {T \cup {x} : T \in subsetsUpTo(rest, n - 1)}

\* State of a call of inferUntilStable before its first statement
freshRun ==
  /\ pc = "load"
  /\ baseGraph = {} /\ seen = {} /\ overlayStore = {} /\ rdfjsStore = {}
  /\ classSupers = emptyMap /\ propSupers = emptyMap
  /\ domainMap = emptyMap /\ rangeMap = emptyMap
  /\ symmetricProps = {} /\ transitiveProps = {} /\ inversePairs = emptyMap
  /\ workTypes = {} /\ workProps = {}
  /\ totalAdded = 0 /\ changed = TRUE /\ ruleIdx = 0 /\ beforeSeenSize = 0
  /\ overlayGraph = {} /\ seeded = {} /\ evalCalls = <<>> /\ seenAtPassStart = 0
  /\ storeWrites = 0 /\ rejected = FALSE
  /\ tcEdges = emptyMap /\ tcPending = {} /\ tcChild = "" /\ tcStack = <<>>
  /\ tcSeenLocal = {} /\ tcClosure = emptyMap /\ tcPc = "notCalled"
  /\ placed = emptyMap /\ handedTypes = emptyMap /\ handedProps = emptyMap

Init ==
  /\ stored \in subsetsUpTo(Universe, MaxInput)
  /\ rules \in RuleLists
  /\ run = 1
  /\ persist \in BOOLEAN
  /\ freshRun
  /\ componentsIdle

\* A smaller set of inputs for the behaviours checked under fairness
LiveUniverse ==
  { rec("urn:A", RDFS_SC, "urn:B"),
    rec("urn:x", RDF_TYPE, "urn:A"),
    rec("urn:p", RDF_TYPE, OWL_TRANS),
    rec("urn:p", RDF_TYPE, OWL_SYM),
    rec("urn:x", "urn:p", "urn:y"),
    rec("urn:y", "urn:p", "urn:z"),
    rec("urn:p", OWL_INV, "urn:q") }

LiveRuleLists == { <<>>, AllRules, <<"transitive", "symmetric">>, <<"symmetric", "bogus">> }

InitLive ==
  /\ stored \in subsetsUpTo(LiveUniverse, MaxInput)
  /\ rules \in LiveRuleLists
  /\ run = 1
  /\ persist \in BOOLEAN
  /\ freshRun
  /\ componentsIdle

\* ---------------------------------------------------------------------------
\* inferUntilStable
\* ---------------------------------------------------------------------------
\* variant: only the statements of the default graph are keyed
initialSeenDefaultGraphOnly(graph) == {toNT(s) : s \in {x \in graph : x.g = ""}}

\* new Set(baseGraph.statements.map(s => s.toNT())): every graph, context dropped
initialSeen(graph) == {toNT(s) : s \in graph}

\* Lines 73-125: load, dedupe set, shared store, closures and property metadata
Load ==
  /\ pc = "load"
  /\ LET g == loadGraphFromIndexedDB(stored)
         store == formulaToRdfjsStore(g)
     IN /\ baseGraph' = g
        /\ seen' = initialSeen(g)
        /\ rdfjsStore' = store
        /\ classSupers' = transitiveClosure(mapFromQuads(store, RDFS_SC))
        /\ propSupers' = transitiveClosure(mapFromQuads(store, RDFS_SP))
        /\ domainMap' = mapFromQuads(store, RDFS_DOMAIN)
        /\ rangeMap' = mapFromQuads(store, RDFS_RANGE)
        /\ symmetricProps' = typedSubjects(store, OWL_SYM)
        /\ transitiveProps' = typedSubjects(store, OWL_TRANS)
        /\ inversePairs' = buildInversePairs(store)
  /\ pc' = "seed"
  /\ UNCHANGED <<stored, rules, run, overlayStore, workTypes, workProps, totalAdded,
                 changed, ruleIdx, beforeSeenSize, overlayGraph, seeded, evalCalls,
                 seenAtPassStart>>
  /\ UNCHANGED <<persist, storeWrites, rejected>>
  /\ UNCHANGED componentVars

\* variant: the closure is rebuilt from the store once statements were added
closureAfterAddRebuilt(closure, store, predIRI) ==
  transitiveClosure(mapFromQuads(store, predIRI))

\* const classSupers, const propSupers ("Build once", lines 95-100): what is
\* added to the store later does not reach them
closureAfterAdd(closure, store, predIRI) == closure

\* The quad the seed phase writes for a lifted statement
seedQuad(s) ==
  [s |-> asRdfjsSubject(s.s), p |-> asRdfjsPredicate(s.p), o |-> asRdfjsObject(s.o), g |-> ""]

\* variant: the keys of the lifted statements are not recorded
seenAfterSeedNone(seenNT, unseen) == seenNT

\* seen.add(s.toNT()) for every statement of seedPropUnseen / seedTypeUnseen
seenAfterSeed(seenNT, unseen) == seenNT \cup {toNT(s) : s \in unseen}

\* Lines 291-368: one-shot subPropertyOf+ and subClassOf+ lift of the base graph
Seed ==
  /\ pc = "seed"
  /\ LET seedTypes == {x \in baseGraph : x.p.v = RDF_TYPE}
         seedProps == {x \in baseGraph : x.p.v # RDF_TYPE}
         seedPropUnseen == selectUnseen(expandPropsWithClosure(seedProps, propSupers), seen)
         seen1 == seenAfterSeed(seen, seedPropUnseen)
         seedTypeUnseen == selectUnseen(expandTypesWithClosure(seedTypes, classSupers), seen1)
         lifted == seedPropUnseen \cup seedTypeUnseen
     IN /\ baseGraph' = baseGraph \cup {st(s.s, s.p, s.o) : s \in lifted}
        /\ overlayStore' = overlayStore \cup {seedQuad(s) : s \in lifted}
        /\ rdfjsStore' = rdfjsStore \cup {seedQuad(s) : s \in lifted}
        /\ seen' = seenAfterSeed(seen1, seedTypeUnseen)
        /\ seeded' = lifted
        /\ classSupers' = closureAfterAdd(classSupers, rdfjsStore \cup {seedQuad(s) : s \in lifted},
                                          RDFS_SC)
        /\ propSupers' = closureAfterAdd(propSupers, rdfjsStore \cup {seedQuad(s) : s \in lifted},
                                         RDFS_SP)
  /\ pc' = "loop"
  /\ UNCHANGED <<domainMap, rangeMap, symmetricProps, transitiveProps, inversePairs>>
  /\ UNCHANGED <<stored, rules, run, workTypes, workProps, totalAdded,
                 changed, ruleIdx, beforeSeenSize, overlayGraph, evalCalls, seenAtPassStart>>
  /\ UNCHANGED <<persist, storeWrites, rejected>>
  /\ UNCHANGED componentVars

\* while (changed) { changed = false; ... for (const rule of rulesFiltered)
BeginPass ==
  /\ pc = "loop" /\ changed
  /\ changed' = FALSE
  /\ ruleIdx' = 1
  /\ seenAtPassStart' = Cardinality(seen)
  /\ pc' = "rule"
  /\ UNCHANGED <<stored, rules, run, baseGraph, seen, overlayStore, rdfjsStore, indexVars,
                 workTypes, workProps, totalAdded, beforeSeenSize, overlayGraph, seeded,
                 evalCalls>>
  /\ UNCHANGED <<persist, storeWrites, rejected>>
  /\ UNCHANGED componentVars

\* End of the for loop: back to the while condition
EndPass ==
  /\ pc = "rule" /\ ruleIdx > Len(rulesFiltered)
  /\ pc' = "loop"
  /\ UNCHANGED <<stored, rules, run, baseGraph, seen, overlayStore, rdfjsStore, indexVars,
                 workTypes, workProps, totalAdded, changed, ruleIdx, beforeSeenSize,
                 overlayGraph, seeded, evalCalls, seenAtPassStart>>
  /\ UNCHANGED <<persist, storeWrites, rejected>>
  /\ UNCHANGED componentVars

\* Lines 379-383: a rule whose query text is falsy is skipped; otherwise
\* runRuleOnce -> applyConstructWithComunica is invoked and awaited
CallRule ==
  /\ pc = "rule" /\ ruleIdx <= Len(rulesFiltered)
  /\ IF isTruthy(getConstructQueryForRule(rulesFiltered[ruleIdx]))
     THEN /\ evalCalls' = Append(evalCalls, rulesFiltered[ruleIdx])
          /\ pc' = "await"
          /\ UNCHANGED ruleIdx
     ELSE /\ ruleIdx' = ruleIdx + 1
          /\ UNCHANGED <<pc, evalCalls>>
  /\ UNCHANGED <<stored, rules, run, baseGraph, seen, overlayStore, rdfjsStore, indexVars,
                 workTypes, workProps, totalAdded, changed, beforeSeenSize, overlayGraph,
                 seeded, seenAtPassStart>>
  /\ UNCHANGED <<persist, storeWrites, rejected>>
  /\ UNCHANGED componentVars

\* The evaluator resolves: lines 385-393, batch de-dup and enqueue
RuleResolve ==
  /\ pc = "await"
  /\ queryHasConstruct(getConstructQueryForRule(rulesFiltered[ruleIdx]))
  /\ LET newStmts == applyConstructWithComunica(
                        getConstructQueryForRule(rulesFiltered[ruleIdx]), rdfjsStore)
         c == enqueue(context, newStmts)
     IN /\ beforeSeenSize' = Cardinality(seen)
        /\ baseGraph' = c.base /\ seen' = c.seen /\ overlayStore' = c.overlay
        /\ rdfjsStore' = c.rdfjs /\ workTypes' = c.wt /\ workProps' = c.wp
        /\ placed' = c.placed /\ handedTypes' = c.handedTypes
        /\ handedProps' = c.handedProps
  /\ pc' = "drain"
  /\ UNCHANGED <<stored, rules, run, indexVars, totalAdded, changed, ruleIdx,
                 overlayGraph, seeded, evalCalls, seenAtPassStart>>
  /\ UNCHANGED <<persist, storeWrites, rejected>>
  /\ UNCHANGED otherCalls

\* The evaluator rejects: the error propagates out of inferUntilStable
\* variant: the rejection is caught and the loop goes on with an empty result
afterRejectContinue == "drain"

afterReject == "failed"

RuleReject ==
  /\ pc = "await"
  /\ pc' = afterReject
  /\ rejected' = TRUE
  /\ UNCHANGED <<persist, storeWrites>>
  /\ UNCHANGED componentVars
  /\ UNCHANGED <<stored, rules, run, baseGraph, seen, overlayStore, rdfjsStore, indexVars,
                 workTypes, workProps, totalAdded, changed, ruleIdx, beforeSeenSize,
                 overlayGraph, seeded, evalCalls, seenAtPassStart>>

\* variant: the loop condition looks at workTypes only
whileConditionTypesOnly(wt, wp) == wt # {}

\* while (workTypes.length || workProps.length)
whileCondition(wt, wp) == wt # {} \/ wp # {}

\* One iteration of while (workTypes.length || workProps.length)
Drain ==
  /\ pc = "drain"
  /\ whileCondition(workTypes, workProps)
  /\ LET c == processQueuesStep(context)
     IN /\ baseGraph' = c.base /\ seen' = c.seen /\ overlayStore' = c.overlay
        /\ rdfjsStore' = c.rdfjs /\ workTypes' = c.wt /\ workProps' = c.wp
        /\ placed' = c.placed /\ handedTypes' = c.handedTypes
        /\ handedProps' = c.handedProps
  /\ UNCHANGED <<stored, rules, run, pc, indexVars, totalAdded, changed, ruleIdx,
                 beforeSeenSize, overlayGraph, seeded, evalCalls, seenAtPassStart>>
  /\ UNCHANGED <<persist, storeWrites, rejected>>
  /\ UNCHANGED otherCalls

\* Lines 398-403: the accounting after processQueues returned
\* variant: the difference is taken the wrong way round
addedByRuleSwapped(seenSize, before) == before - seenSize

addedByRule(seenSize, before) == seenSize - before

totalAfterRule(added, total) == IF added > 0 THEN total + added ELSE total

\* variant: added >= 0 instead of added > 0
changedAfterRuleNonNegative(added, ch) == IF added >= 0 THEN TRUE ELSE ch

\* variant: changed is not set
changedAfterRuleNotSet(added, ch) == ch

changedAfterRule(added, ch) == IF added > 0 THEN TRUE ELSE ch

\* variant: the loop steps over the following rule
nextRuleSkipping(i) == i + 2

\* for (const rule of rulesFiltered): the following entry of the list
nextRule(i) == i + 1

RuleDone ==
  /\ pc = "drain"
  /\ ~whileCondition(workTypes, workProps)
  /\ LET added == addedByRule(Cardinality(seen), beforeSeenSize)
     IN /\ totalAdded' = totalAfterRule(added, totalAdded)
        /\ changed' = changedAfterRule(added, changed)
  /\ ruleIdx' = nextRule(ruleIdx)
  /\ pc' = "rule"
  /\ UNCHANGED <<stored, rules, run, baseGraph, seen, overlayStore, rdfjsStore, indexVars,
                 workTypes, workProps, beforeSeenSize, overlayGraph, seeded, evalCalls,
                 seenAtPassStart>>
  /\ UNCHANGED <<persist, storeWrites, rejected>>
  /\ UNCHANGED componentVars

\* Lines 407-426: overlayStore -> overlayGraph, return
overlayToGraph(store) ==
  {st(IF q.s.k = "NamedNode" THEN sym(q.s.v) ELSE blankNode(q.s.v),
      sym(q.p.v),
      toObject(q.o)) : q \in store}

Finish ==
  /\ pc = "loop" /\ ~changed
  /\ overlayGraph' = overlayToGraph(overlayStore)
  /\ pc' = "done"
  /\ UNCHANGED <<stored, rules, run, baseGraph, seen, overlayStore, rdfjsStore, indexVars,
                 workTypes, workProps, totalAdded, changed, ruleIdx, beforeSeenSize,
                 seeded, evalCalls, seenAtPassStart>>
  /\ UNCHANGED <<persist, storeWrites, rejected>>
  /\ UNCHANGED componentVars

\* Lines 445-449 of runInferenceOverlay, after inferUntilStable has returned:
\* without persist the result is returned, with persist the overlay is stashed
\* first (targetMode and graphIRI are the caller's)
\* variant: the overlay is stashed whatever opt.persist is
returnsWithoutStashNever(p) == FALSE

\* if (!persist) return { overlayGraph, metrics }
returnsWithoutStash(p) == ~p

ReturnOverlay ==
  /\ pc = "done"
  /\ IF returnsWithoutStash(persist)
     THEN /\ pc' = "returned"
          /\ UNCHANGED <<stored, storeWrites>>
     ELSE /\ \E targetMode \in {"default", "named"}, graphIRI \in {"", "urn:g1"} :
               stored' \in stashGraphToIndexedDB(stored, overlayGraph, targetMode, graphIRI,
                                                  "urn:graph:inferred", run, FALSE)
          /\ storeWrites' = storeWrites + 1
          /\ pc' = "persisted"
  /\ UNCHANGED <<rules, run, baseGraph, seen, overlayStore, rdfjsStore, indexVars,
                 workTypes, workProps, totalAdded, changed, ruleIdx, beforeSeenSize,
                 overlayGraph, seeded, evalCalls, seenAtPassStart, persist, rejected>>
  /\ UNCHANGED componentVars

\* runInferenceOverlay is called again with the same options, on the store
\* that now holds the first overlay
Rerun ==
  /\ pc = "persisted" /\ run = 1
  /\ run' = 2
  /\ pc' = "load"
  /\ baseGraph' = {} /\ seen' = {} /\ overlayStore' = {} /\ rdfjsStore' = {}
  /\ classSupers' = emptyMap /\ propSupers' = emptyMap
  /\ domainMap' = emptyMap /\ rangeMap' = emptyMap
  /\ symmetricProps' = {} /\ transitiveProps' = {} /\ inversePairs' = emptyMap
  /\ workTypes' = {} /\ workProps' = {}
  /\ totalAdded' = 0 /\ changed' = TRUE /\ ruleIdx' = 0 /\ beforeSeenSize' = 0
  /\ overlayGraph' = {} /\ seeded' = {} /\ evalCalls' = <<>> /\ seenAtPassStart' = 0
  /\ storeWrites' = 0 /\ rejected' = FALSE
  /\ UNCHANGED <<stored, rules, persist>>
  /\ placed' = emptyMap /\ handedTypes' = emptyMap /\ handedProps' = emptyMap
  /\ UNCHANGED otherCalls

Next ==
  \/ Load \/ Seed \/ BeginPass \/ EndPass \/ CallRule
  \/ RuleResolve \/ RuleReject \/ Drain \/ RuleDone \/ Finish \/ ReturnOverlay \/ Rerun

Spec == Init /\ [][Next]_vars

\* ---------------------------------------------------------------------------
\* Properties
\* ---------------------------------------------------------------------------
\* The input of the current run, as loaded
inputGraph == loadGraphFromIndexedDB(stored)
inputKeys == {toNT(s) : s \in inputGraph}
overlayKeys == {toNT(s) : s \in overlayGraph}
returned == pc = "done"
selected(rule) == \E i \in 1..Len(rules) : rules[i] = rule
triple(s, p, o) == st(sym(s), sym(p), sym(o))

workingKeys == {toNT(s) : s \in baseGraph}
seededKeys == {toNT(s) : s \in seeded}
typeOf(s, cTerm) == st(s, sym(RDF_TYPE), cTerm)

\* C1: idempotence -- the second run, on the input plus the first overlay,
\* returns an empty overlay and totalAdded = 0
C1_Idempotence ==
  (run = 2 /\ returned) => (overlayGraph = {} /\ totalAdded = 0)

\* Pairs <<a, b>> joined by a chain of one or more edges of E (relational
\* composition, at most n + 1 edges)
RECURSIVE chains(_, _)
chains(E, n) ==
  IF n = 0 THEN E
  ELSE LET R == chains(E, n - 1)
       IN R \cup {<<pr[1][1], pr[2][2]>> : pr \in {x \in R \X E : x[1][2] = x[2][1]}}

subClassEdgesOfInput ==
  {<<e.s.v, e.o.v>> :
     e \in {x \in inputGraph : x.p = sym(RDFS_SC) /\ x.s.k = "NamedNode" /\ x.o.k = "NamedNode"}}

\* C2: closure correctness -- for every input fact (x, rdf:type, A) and every
\* class S that a chain of input rdfs:subClassOf edges joins to A, the returned
\* overlay contains (x, rdf:type, S) unless the input already does
C2_ClosureCorrectness ==
  returned =>
    \A f \in {x \in inputGraph : x.p = sym(RDF_TYPE) /\ x.o.k = "NamedNode"} :
      \A ch \in {c \in chains(subClassEdgesOfInput, Cardinality(subClassEdgesOfInput)) :
                   c[1] = f.o.v} :
        toNT(typeOf(f.s, sym(ch[2]))) \in inputKeys \cup overlayKeys

C2_Witness ==
  /\ returned
  /\ {triple("urn:A", RDFS_SC, "urn:B"), triple("urn:B", RDFS_SC, "urn:C"),
      triple("urn:x", RDF_TYPE, "urn:A")} \subseteq inputGraph
  /\ {toNT(triple("urn:x", RDF_TYPE, "urn:B")), toNT(triple("urn:x", RDF_TYPE, "urn:C"))}
       \subseteq overlayKeys \ inputKeys

declaredIn(graph, p, cls) ==
  \E d \in graph : d.s = p /\ d.p = sym(RDF_TYPE) /\ d.o = sym(cls)

\* C3: transitive property -- when 'transitive' is selected and the run returns,
\* for every p declared owl:TransitiveProperty and every pair (x, p, y), (y, p, z)
\* of the working set (input facts in either order, or facts derived in any
\* pass), (x, p, z) is in the input or in the returned overlay
C3_TransitiveProperty ==
  (returned /\ selected("transitive")) =>
    \A pr \in {x \in baseGraph \X baseGraph :
                 /\ x[1].p = x[2].p /\ x[1].o = x[2].s
                 /\ declaredIn(baseGraph, x[1].p, OWL_TRANS)} :
      toNT(st(pr[1].s, pr[1].p, pr[2].o)) \in inputKeys \cup overlayKeys

C3_Witness ==
  /\ returned /\ selected("transitive")
  /\ {triple("urn:p", RDF_TYPE, OWL_TRANS), triple("urn:x", "urn:p", "urn:y"),
      triple("urn:y", "urn:p", "urn:z")} \subseteq inputGraph
  /\ toNT(triple("urn:x", "urn:p", "urn:z")) \in overlayKeys \ inputKeys

\* C4: symmetric property -- when 'symmetric' is selected and the run returns,
\* for every input fact (x, p, y) with p declared owl:SymmetricProperty in the
\* input, y not a literal, and the mirror absent from the input, the returned
\* overlay holds the mirror (y, p, x) exactly once
C4_SymmetricProperty ==
  (returned /\ selected("symmetric")) =>
    \A f \in {x \in inputGraph : /\ declaredIn(inputGraph, x.p, OWL_SYM)
                                /\ x.o.k # "Literal"
                                /\ toNT(st(x.o, x.p, x.s)) \notin inputKeys} :
      Cardinality({o \in overlayGraph : toNT(o) = toNT(st(f.o, f.p, f.s))}) = 1

C4_Witness ==
  /\ returned /\ selected("symmetric")
  /\ {triple("urn:p", RDF_TYPE, OWL_SYM), triple("urn:x", "urn:p", "urn:y")} \subseteq inputGraph
  /\ Len(evalCalls) > Len(rulesFiltered)
  /\ triple("urn:y", "urn:p", "urn:x") \in overlayGraph

\* C5: inverse property -- when 'inverse' is selected and the run returns, for
\* every input declaration p owl:inverseOf q (q an IRI) and input fact
\* (x, p, y) with y not a literal, (y, q, x) is in the input or in the
\* returned overlay
C5_InverseProperty ==
  (returned /\ selected("inverse")) =>
    \A pr \in {x \in inputGraph \X inputGraph :
                 /\ x[1].p = sym(OWL_INV) /\ x[1].s = x[2].p
                 /\ x[1].o.k = "NamedNode" /\ x[2].o.k # "Literal"} :
      toNT(st(pr[2].o, pr[1].o, pr[2].s)) \in inputKeys \cup overlayKeys

C5_Witness ==
  /\ returned /\ selected("inverse")
  /\ {triple("urn:p", OWL_INV, "urn:q"), triple("urn:x", "urn:p", "urn:y")} \subseteq inputGraph
  /\ toNT(triple("urn:y", "urn:q", "urn:x")) \in overlayKeys \ inputKeys

\* C6: domain and range -- when 'domain' and 'range' are selected and the run
\* returns, for every input fact (x, p, y): (x, rdf:type, D) for every input
\* declaration p rdfs:domain D, and (y, rdf:type, R) for every input
\* declaration p rdfs:range R when y is not a literal, are in the input or in
\* the returned overlay
C6_DomainRange ==
  (returned /\ selected("domain") /\ selected("range")) =>
    \A pr \in {x \in inputGraph \X inputGraph : x[1].s = x[2].p} :
      /\ pr[1].p = sym(RDFS_DOMAIN)
           => toNT(typeOf(pr[2].s, pr[1].o)) \in inputKeys \cup overlayKeys
      /\ (pr[1].p = sym(RDFS_RANGE) /\ pr[2].o.k # "Literal")
           => toNT(typeOf(pr[2].o, pr[1].o)) \in inputKeys \cup overlayKeys

C6_Witness ==
  /\ returned /\ selected("domain") /\ selected("range")
  /\ {triple("urn:p", RDFS_DOMAIN, "urn:A"), triple("urn:p", RDFS_RANGE, "urn:B"),
      triple("urn:x", "urn:p", "urn:y")} \subseteq inputGraph
  /\ {toNT(triple("urn:x", RDF_TYPE, "urn:A")), toNT(triple("urn:y", RDF_TYPE, "urn:B"))}
       \subseteq overlayKeys \ inputKeys

\* Inputs in which the subclass closure and the domain rule meet
OverlapUniverse ==
  { rec("urn:A", RDFS_SC, "urn:B"),
    rec("urn:B", RDFS_SC, "urn:C"),
    rec("urn:x", RDF_TYPE, "urn:A"),
    rec("urn:p", RDFS_DOMAIN, "urn:B"),
    rec("urn:p", RDFS_DOMAIN, "urn:A"),
    rec("urn:x", "urn:p", "urn:y") }

OverlapRuleLists == { <<"subclassof", "domain">>, <<"domain", "range">>, AllRules }

InitOverlap ==
  /\ stored \in SUBSET OverlapUniverse
  /\ rules \in OverlapRuleLists
  /\ run = 1
  /\ persist \in BOOLEAN
  /\ freshRun
  /\ componentsIdle

SpecOverlap == InitOverlap /\ [][Next]_vars

\* Keys that a selected closure rule (subclassof, subpropertyof) derives from the input
closureDerivable ==
  LET store == formulaToRdfjsStore(inputGraph)
  IN (IF selected("subclassof")
      THEN {toNT(s) : s \in expandTypesWithClosure({x \in inputGraph : x.p.v = RDF_TYPE},
                               transitiveClosure(mapFromQuads(store, RDFS_SC)))}
      ELSE {})
     \cup
     (IF selected("subpropertyof")
      THEN {toNT(s) : s \in expandPropsWithClosure({x \in inputGraph : x.p.v # RDF_TYPE},
                               transitiveClosure(mapFromQuads(store, RDFS_SP)))}
      ELSE {})

\* Keys that a selected query rule derives from the input
queryDerivable ==
  UNION {{toNT(constructToStatement(m)) :
            m \in {x \in matchRule(r, formulaToRdfjsStore(inputGraph)) :
                     validTriple(x[1], x[2], x[3])}} :
         r \in {x \in RuleCatalogue : selected(x)}}

\* C7: no duplication across rules -- when every statement of the returned
\* overlay is derived from the input by two different selected rules, each is
\* in the overlay exactly once and totalAdded counts each exactly once
C7_NoDuplicationAcrossRules ==
  (returned /\ overlayKeys # {} /\ overlayKeys \subseteq (closureDerivable \cap queryDerivable)) =>
    /\ \A k \in overlayKeys : Cardinality({q \in overlayStore : toNT(q) = k}) = 1
    /\ totalAdded = Cardinality(overlayKeys)

\* C8: rule selection -- the evaluator is never invoked for an identifier
\* that is not in the catalogue
C8_UnknownRuleIgnored ==
  \A i \in 1..Len(evalCalls) : evalCalls[i] \in RuleCatalogue

noDeclarations(graph) ==
  \A s \in graph :
    /\ s.p.v \notin {RDFS_SC, RDFS_SP, OWL_INV, RDFS_DOMAIN, RDFS_RANGE}
    /\ ~(s.p.v = RDF_TYPE /\ s.o.v \in {OWL_SYM, OWL_TRANS})

isPrefix(a, b) == Len(a) <= Len(b) /\ \A i \in 1..Len(a) : a[i] = b[i]

\* C9: termination scenario -- for an input without declarations and a rule
\* list from the catalogue, nothing is ever added, the evaluator is invoked at
\* most once per selected non-closure rule, and at return exactly once for
\* each, with an empty overlay and totalAdded = 0
C9_TerminationScenario ==
  (noDeclarations(inputGraph) /\ \A i \in 1..Len(rules) : rules[i] \in RuleCatalogue) =>
    /\ overlayStore = {} /\ totalAdded = 0
    /\ isPrefix(evalCalls, rulesFiltered)
    /\ returned => (evalCalls = rulesFiltered /\ overlayGraph = {})

C9_Witness ==
  /\ returned /\ rules = AllRules
  /\ inputGraph = {triple("urn:x", "urn:p", "urn:y"), triple("urn:x", RDF_TYPE, "urn:A")}
  /\ Len(evalCalls) = 5

\* The evaluator eventually answers and the synchronous steps are taken
LiveSpec == InitLive /\ [][Next]_vars /\ WF_vars(Next)

finished == pc = "done" \/ pc = "failed"

\* C10: termination of the outer loop -- after a completed pass the loop
\* stops exactly when that pass added nothing to the seen index, and every
\* run eventually returns (or fails because the evaluator rejected)
C10_OuterLoopTermination ==
  /\ [][(pc = "loop" /\ ruleIdx > 0) => ((pc' = "done") <=> (Cardinality(seen) = seenAtPassStart))]_vars
  /\ (pc = "load") ~> finished

C10_Witness ==
  /\ returned
  /\ Len(evalCalls) > Len(rulesFiltered)
  /\ Cardinality(seen) = seenAtPassStart
  /\ totalAdded > 0

\* Inputs in which a rule derives a declaration that another rule consumes
MaxFixInput == 4

FixUniverse ==
  { rec("urn:q", RDFS_DOMAIN, OWL_SYM),
    rec("urn:q", RDFS_DOMAIN, OWL_TRANS),
    rec("urn:p", "urn:q", "urn:z"),
    rec("urn:x", "urn:p", "urn:y"),
    rec("urn:y", "urn:p", "urn:z"),
    rec("urn:p", OWL_INV, "urn:q"),
    rec("urn:p", RDF_TYPE, OWL_SYM) }

FixRuleLists ==
  { <<"symmetric", "domain">>, <<"transitive", "domain">>, <<"inverse", "symmetric", "domain">>,
    AllRules }

InitFix ==
  /\ stored \in subsetsUpTo(FixUniverse, MaxFixInput)
  /\ rules \in FixRuleLists
  /\ run = 1
  /\ persist \in BOOLEAN
  /\ freshRun
  /\ componentsIdle

SpecFix == InitFix /\ [][Next]_vars

\* C11: fixpoint at return -- when the run returns, every statement that a
\* selected non-closure rule yields when evaluated against the final working
\* set has its key in the seen index
C11_FixpointAtReturn ==
  returned =>
    \A i \in 1..Len(rulesFiltered) :
      \A s \in applyConstructWithComunica(getConstructQueryForRule(rulesFiltered[i]), rdfjsStore) :
        toNT(s) \in seen

\* a run in which the second pass derives from a declaration derived in the first
C11_Witness ==
  /\ returned /\ rules = <<"symmetric", "domain">>
  /\ inputGraph = {triple("urn:q", RDFS_DOMAIN, OWL_SYM), triple("urn:p", "urn:q", "urn:z"),
                   triple("urn:x", "urn:p", "urn:y")}
  /\ triple("urn:y", "urn:p", "urn:x") \in overlayGraph
  /\ Len(evalCalls) = 6

\* Inputs with statements in a named graph and with a blank-node subject
MaxNgInput == 4

recIn(s, p, o, g) == [s |-> sym(s), p |-> sym(p), o |-> sym(o), g |-> g]

NgUniverse ==
  { rec("urn:A", RDFS_SC, "urn:B"),
    rec("urn:B", RDFS_SC, "urn:C"),
    rec("urn:x", RDF_TYPE, "urn:A"),
    recIn("urn:x", RDF_TYPE, "urn:B", "urn:g1"),
    rec("urn:p", RDF_TYPE, OWL_SYM),
    rec("urn:x", "urn:p", "urn:y"),
    recIn("urn:y", "urn:p", "urn:x", "urn:g1"),
    [s |-> blankNode("b1"), p |-> sym(RDF_TYPE), o |-> sym("urn:A"), g |-> ""] }

NgRuleLists == { AllRules, <<"symmetric">>, <<"subclassof", "domain">> }

InitNg ==
  /\ stored \in subsetsUpTo(NgUniverse, MaxNgInput)
  /\ rules \in NgRuleLists
  /\ run = 1
  /\ persist \in BOOLEAN
  /\ freshRun
  /\ componentsIdle

SpecNg == InitNg /\ [][Next]_vars

\* C12: the overlay holds only newly derived statements -- in every state no
\* statement of the overlay (the store of derived quads and the returned
\* graph) has the (subject, predicate, object) key of a statement of the
\* initial input, whatever graph that input statement is in (once the overlay
\* has been persisted the store is no longer the input of this run)
C12_OverlayOnlyNew ==
  pc # "persisted" =>
    /\ {toNT(s) : s \in overlayToGraph(overlayStore)} \cap inputKeys = {}
    /\ overlayKeys \cap inputKeys = {}

\* the lift (x type B) is already in the input, in a named graph; (x type C) is not
C12_Witness ==
  /\ returned
  /\ inputGraph = {triple("urn:A", RDFS_SC, "urn:B"), triple("urn:B", RDFS_SC, "urn:C"),
                   triple("urn:x", RDF_TYPE, "urn:A"),
                   [triple("urn:x", RDF_TYPE, "urn:B") EXCEPT !.g = "urn:g1"]}
  /\ overlayGraph = {triple("urn:x", RDF_TYPE, "urn:C")}

\* C13: evaluator failure is fatal -- once the evaluator has rejected, the
\* run is failed and takes no further step (the rule is not retried, no later
\* rule is evaluated), and the rejection leaves the working set, the seen
\* index, the overlay and the persisted store as they were
C13_EvaluatorFailureFatal ==
  /\ [](rejected => pc = "failed")
  /\ [][~rejected]_vars
  /\ [][rejected' => UNCHANGED <<baseGraph, rdfjsStore, seen, overlayStore, evalCalls, stored>>]_vars

\* a rejection at a later rule, after statements were added
C13_Witness ==
  /\ pc = "failed" /\ rejected
  /\ Len(evalCalls) >= 2
  /\ overlayStore # {}
  /\ overlayStore \subseteq rdfjsStore

\* C14: runInferenceOverlay writes to the persisted store only when persist is
\* true -- the store is written by no step of a call without persist; with
\* persist it is written once per call, by the step that follows the
\* successful return of inferUntilStable, and a failed run has written nothing
C14_PersistOnlySideEffect ==
  /\ [][(stored' # stored \/ storeWrites' > storeWrites)
          => (persist /\ pc = "done" /\ storeWrites = 0 /\ storeWrites' = 1)]_vars
  /\ [](~persist => storeWrites = 0)
  /\ [](pc = "persisted" => storeWrites = 1)
  /\ [](pc = "failed" => storeWrites = 0)

C14_Witness ==
  /\ pc = "persisted" /\ persist /\ run = 1
  /\ storeWrites = 1
  /\ overlayGraph # {}
  /\ \A s \in overlayGraph : \E r \in stored : <<r.s, r.p, r.o>> = <<s.s, s.p, s.o>>
  /\ inputGraph # {} /\ Cardinality(stored) > Cardinality(overlayGraph)

\* C15: metrics agree with the output -- when the run returns, totalAdded is
\* the number of statements of the returned overlay, seed lifts included, and
\* totalAdded never decreases during a run
C15_MetricsAgreeWithOutput ==
  /\ [](returned => totalAdded = Cardinality(overlayGraph))
  /\ [][run' = run => totalAdded' >= totalAdded]_vars

\* ---------------------------------------------------------------------------
\* flushActiveWorkspace (comunica-indexeddb-bridge.js) and wipeActiveWorkspace
\* (indexeddb-triplestore.js)
\* ---------------------------------------------------------------------------
LocalStorageUniverse == {"theme", "lastQuery"}

wipeFrame == <<stashVars, settingVars, textVars, batchVars, queryVars>>

\* No inference is running
noRun == rules = <<>> /\ run = 1 /\ persist = FALSE /\ freshRun

InitWipe ==
  /\ stashIdle /\ settingIdle /\ textIdle /\ batchIdle /\ queryIdle
  /\ databases \in SUBSET DbNames
  /\ stored \in (IF DB_NAME \in databases THEN subsetsUpTo(LiveUniverse, 1) ELSE {{}})
  /\ noRun
  /\ flushPc = "notCalled" /\ wipePc = "notCalled"
  /\ deleteReq = [n \in DbNames |-> "none"]
  /\ innerPromise = [n \in DbNames |-> "none"]
  /\ outerPromise = [n \in DbNames |-> "none"]
  /\ localStorageKeys \in SUBSET LocalStorageUniverse
  /\ dispatched = <<>>
  /\ statusButtons \in {"on", "off"}

\* flushActiveWorkspace up to `await wipeActiveWorkspace()`: confirm(), then the call
FlushClick ==
  /\ flushPc = "notCalled"
  /\ \E ok \in BOOLEAN :
       IF ok THEN flushPc' = "awaitWipe" /\ wipePc' = "close"
       ELSE flushPc' = "returned" /\ UNCHANGED wipePc
  /\ UNCHANGED <<inferVars, deleteReq, innerPromise, outerPromise, databases,
                 localStorageKeys, dispatched, statusButtons>>
  /\ UNCHANGED wipeFrame

\* closeOpenIndexedDBConnections: openDB(name) without a version opens the
\* database, creating it when absent; a failed open is caught
CloseOpenConnections ==
  /\ wipePc = "close"
  /\ \E opened \in SUBSET DbNames : databases' = databases \cup opened
  /\ wipePc' = "delete"
  /\ UNCHANGED <<inferVars, flushPc, deleteReq, innerPromise, outerPromise,
                 localStorageKeys, dispatched, statusButtons>>
  /\ UNCHANGED wipeFrame

\* The two calls of deleteIndexedDBInstance: each creates the promise it
\* returns, and inside its executor a second promise that issues deleteDatabase
StartDeletes ==
  /\ wipePc = "delete"
  /\ deleteReq' = [n \in DbNames |-> "pending"]
  /\ innerPromise' = [n \in DbNames |-> "pending"]
  /\ outerPromise' = [n \in DbNames |-> "pending"]
  /\ wipePc' = "allSettled"
  /\ UNCHANGED <<inferVars, flushPc, databases, localStorageKeys, dispatched, statusButtons>>
  /\ UNCHANGED wipeFrame

\* req.onblocked: a warning is logged
DeleteBlocked(n) ==
  /\ deleteReq[n] = "pending"
  /\ deleteReq' = [deleteReq EXCEPT ![n] = "blocked"]
  /\ UNCHANGED <<inferVars, flushPc, wipePc, innerPromise, outerPromise, databases,
                 localStorageKeys, dispatched, statusButtons>>
  /\ UNCHANGED wipeFrame

\* resolve and reject inside the request handlers are the parameters of the
\* inner executor, which shadow those of the outer one: the promise that
\* deleteIndexedDBInstance returned is settled by nobody
settleOuter(outer, n, outcome) == outer

\* What follows `await Promise.allSettled([...])` in wipeActiveWorkspace, and
\* then `await wipeActiveWorkspace()` in flushActiveWorkspace
afterAllSettled(outer) ==
  IF wipePc = "allSettled" /\ \A n \in DbNames : outer[n] \in {"fulfilled", "rejected"}
  THEN /\ localStorageKeys' = {}
       /\ dispatched' = dispatched \o <<"triples-changed", "settings-changed">>
       /\ wipePc' = "resolved"
       /\ statusButtons' = "off"
       /\ flushPc' = "finished"
  ELSE UNCHANGED <<localStorageKeys, dispatched, wipePc, statusButtons, flushPc>>

\* req.onsuccess
DeleteSucceeds(n) ==
  /\ deleteReq[n] \in {"pending", "blocked"}
  /\ deleteReq' = [deleteReq EXCEPT ![n] = "success"]
  /\ databases' = databases \ {n}
  /\ stored' = IF n = DB_NAME THEN {} ELSE stored
  /\ innerPromise' = [innerPromise EXCEPT ![n] = "fulfilled"]
  /\ outerPromise' = settleOuter(outerPromise, n, "fulfilled")
  /\ afterAllSettled(outerPromise')
  /\ UNCHANGED runVars
  /\ UNCHANGED wipeFrame

\* req.onerror
DeleteFails(n) ==
  /\ deleteReq[n] \in {"pending", "blocked"}
  /\ deleteReq' = [deleteReq EXCEPT ![n] = "error"]
  /\ innerPromise' = [innerPromise EXCEPT ![n] = "rejected"]
  /\ outerPromise' = settleOuter(outerPromise, n, "rejected")
  /\ afterAllSettled(outerPromise')
  /\ UNCHANGED <<inferVars, databases>>
  /\ UNCHANGED wipeFrame

NextWipe ==
  \/ FlushClick \/ CloseOpenConnections \/ StartDeletes
  \/ \E n \in DbNames : DeleteBlocked(n)
  \/ \E n \in DbNames : DeleteSucceeds(n)
  \/ \E n \in DbNames : DeleteFails(n)

\* The browser answers every delete request
SpecWipe == InitWipe /\ [][NextWipe]_vars /\ WF_vars(NextWipe)

\* C16: wipeActiveWorkspace eventually completes -- once both delete requests
\* have succeeded, localStorage gets cleared, the two clear events are
\* dispatched, the call resolves and flushActiveWorkspace sets the status
\* buttons to idle
C16_WipeCompletes ==
  (\A n \in DbNames : deleteReq[n] = "success")
    ~> (/\ wipePc = "resolved"
        /\ localStorageKeys = {}
        /\ dispatched = <<"triples-changed", "settings-changed">>
        /\ flushPc = "finished" /\ statusButtons = "off")

\* ---------------------------------------------------------------------------
\* A direct call of stashGraphToIndexedDB(graph, mode, graphIRI, autoBase, opts)
\* ---------------------------------------------------------------------------
StashStoreUniverse ==
  { recIn("urn:x", RDF_TYPE, "urn:A", "urn:g1"),
    recIn("urn:y", "urn:p", "urn:z", "urn:g1"),
    rec("urn:x", "urn:p", "urn:y"),
    recIn("urn:x", RDF_TYPE, "urn:A", "urn:g2") }

StashGraphUniverse ==
  { triple("urn:x", RDF_TYPE, "urn:A"),
    triple("urn:x", RDF_TYPE, "urn:B"),
    triple("urn:x", "urn:p", "urn:y") }

stashFrame == <<runVars, wipeVars, settingVars, textVars, batchVars, queryVars>>

InitStash ==
  /\ noRun /\ wipeIdle /\ settingIdle /\ textIdle /\ batchIdle /\ queryIdle
  /\ stored \in SUBSET StashStoreUniverse
  /\ stashArgs \in [op : {"stash"}, graph : SUBSET StashGraphUniverse,
                    mode : {"default", "named"}, graphIRI : {"", "urn:g1"},
                    replace : BOOLEAN]
  /\ stashPc = "called"
  /\ storedBefore = stored

StashGraph ==
  /\ stashPc = "called"
  /\ stored' \in stashGraphToIndexedDB(stored, stashArgs.graph, stashArgs.mode,
                                        stashArgs.graphIRI, "urn:graph:auto", 1,
                                        stashArgs.replace)
  /\ stashPc' = "done"
  /\ UNCHANGED <<stashArgs, storedBefore>>
  /\ UNCHANGED stashFrame

NextStash == StashGraph

SpecStash == InitStash /\ [][NextStash]_vars

\* C17: replace semantics of stashGraphToIndexedDB -- after a call with mode
\* 'named', a graphIRI and opts.replace = true, the store holds for that graph
\* exactly the statements of the given graph
C17_StashReplace ==
  (stashPc = "done" /\ stashArgs.mode = "named" /\ stashArgs.graphIRI # "" /\ stashArgs.replace) =>
    {<<r.s, r.p, r.o>> : r \in {x \in stored : x.g = stashArgs.graphIRI}}
      = {<<s.s, s.p, s.o>> : s \in stashArgs.graph}

\* ---------------------------------------------------------------------------
\* The settings database: initSettingsDB, getSetting, saveSetting
\* (indexeddb-triplestore.js, lines 17-76)
\* ---------------------------------------------------------------------------
MaxSettingCalls == 2

SettingKeys == {"endpoint", "lastQuery"}
SettingValues == {"v1", "v2"}

\* idb.openDB(SETTINGS_DB_NAME, 1, {upgrade}): the upgrade callback runs, and
\* creates the store, only when the database did not exist
initSettingsDB(db) == IF db = "absent" THEN "ready" ELSE db

\* The first declaration (lines 32-42): every failure is caught
getSettingFirst(db, data, key, openFails, readFails) ==
  IF openFails \/ readFails \/ initSettingsDB(db) = "noStore" THEN "undefined"
  ELSE IF key \in DOMAIN data THEN data[key] ELSE "undefined"

\* The second declaration (lines 72-76): nothing is caught
getSettingSecond(db, data, key, openFails, readFails) ==
  IF openFails \/ readFails \/ initSettingsDB(db) = "noStore" THEN "threw"
  ELSE IF key \in DOMAIN data THEN data[key] ELSE "undefined"

\* Two function declarations with one name in a script: the later one is the
\* binding every caller sees
getSetting(db, data, key, openFails, readFails) ==
  getSettingSecond(db, data, key, openFails, readFails)

settingFrame == <<inferVars, wipeVars, stashVars, textVars, batchVars, queryVars>>

InitSettings ==
  /\ stored = {} /\ noRun /\ wipeIdle /\ stashIdle /\ textIdle /\ batchIdle /\ queryIdle
  /\ settingsDb \in {"absent", "ready"}
  /\ settingsData \in (IF settingsDb = "ready"
                       THEN UNION {[K -> SettingValues] : K \in SUBSET SettingKeys}
                       ELSE {emptyMap})
  /\ settingCall = noCall
  /\ settingCalls = 0

\* getSetting(key); the open or the read may fail for reasons of the browser
GetSetting ==
  /\ settingCalls < MaxSettingCalls
  /\ \E key \in SettingKeys, openFails \in BOOLEAN, readFails \in BOOLEAN :
       /\ settingCall' = [op |-> "get", key |-> key, dbBefore |-> settingsDb,
                          openFailed |-> openFails, readFailed |-> (~openFails /\ readFails),
                          outcome |-> getSetting(settingsDb, settingsData, key, openFails,
                                                 ~openFails /\ readFails)]
       /\ settingsDb' = IF openFails THEN settingsDb ELSE initSettingsDB(settingsDb)
  /\ settingCalls' = settingCalls + 1
  /\ UNCHANGED settingsData
  /\ UNCHANGED settingFrame

\* saveSetting(key, value), second declaration (lines 62-65)
SaveSetting ==
  /\ settingCalls < MaxSettingCalls
  /\ \E key \in SettingKeys, value \in SettingValues, openFails \in BOOLEAN :
       LET db == IF openFails THEN settingsDb ELSE initSettingsDB(settingsDb)
           ok == ~openFails /\ db = "ready"
       IN /\ settingCall' = [op |-> "save", key |-> key, dbBefore |-> settingsDb,
                             openFailed |-> openFails, readFailed |-> FALSE,
                             outcome |-> IF ok THEN "undefined" ELSE "threw"]
          /\ settingsDb' = db
          /\ settingsData' = IF ok
                             THEN [k \in DOMAIN settingsData \cup {key} |->
                                     IF k = key THEN value ELSE settingsData[k]]
                             ELSE settingsData
  /\ settingCalls' = settingCalls + 1
  /\ UNCHANGED settingFrame

\* closeOpenIndexedDBConnections: idb.openDB(SETTINGS_DB_NAME) without version
\* and without upgrade callback creates an absent database with no object store
OpenSettingsWithoutVersion ==
  /\ settingsDb = "absent"
  /\ settingsDb' = "noStore"
  /\ UNCHANGED <<settingsData, settingCall, settingCalls>>
  /\ UNCHANGED settingFrame

\* indexedDB.deleteDatabase(SETTINGS_DB_NAME) succeeds
DeleteSettingsDb ==
  /\ settingsDb # "absent"
  /\ settingsDb' = "absent"
  /\ settingsData' = emptyMap
  /\ UNCHANGED <<settingCall, settingCalls>>
  /\ UNCHANGED settingFrame

NextSettings == GetSetting \/ SaveSetting \/ OpenSettingsWithoutVersion \/ DeleteSettingsDb

SpecSettings == InitSettings /\ [][NextSettings]_vars

\* C18: getSetting is safe after wipes -- a call of getSetting that meets a
\* missing settings database, a database without the Settings store, a failed
\* open or a failed read returns undefined and does not throw
C18_GetSettingSafe ==
  (/\ settingCall.op = "get"
   /\ \/ settingCall.dbBefore \in {"absent", "noStore"}
      \/ settingCall.openFailed
      \/ settingCall.readFailed)
    => settingCall.outcome = "undefined"

\* ---------------------------------------------------------------------------
\* replaceAngleIris (iri-replacement-core.js, lines 212-231)
\* ---------------------------------------------------------------------------
MaxText == 5

\* A text is a sequence of characters; "o" is a character of an IRI
TextChars == {"<", ">", "\"", "o", " "}

TextUniverse == UNION {[1..n -> TextChars] : n \in 0..MaxText}

\* Mappings old IRI -> new IRI, as parseIriMappingCsv builds them
IriMapUniverse == {emptyMap, [k \in {<<"o">>} |-> <<"n">>]}

\* The characters that end the run [^>\s]+ of ANGLE_IRI_RE
endsIriRun(c) == c \in {">", " "}

\* The index of the ">" that closes a match of /<([^>\s]+)>/ starting at i,
\* 0 when the expression does not match at i
angleMatchEnd(text, i) ==
  IF text[i] # "<" THEN 0
  ELSE LET stops == {j \in (i + 1)..Len(text) : endsIriRun(text[j])}
       IN IF stops = {} THEN 0
          ELSE LET j == CHOOSE k \in stops : \A l \in stops : k <= l
               IN IF text[j] = ">" /\ j > i + 1 THEN j ELSE 0

\* text.replace(ANGLE_IRI_RE, (m, iri) => ...) from index i on: matches are
\* taken leftmost and do not overlap
RECURSIVE replaceAnglesFrom(_, _, _)
replaceAnglesFrom(text, i, map) ==
  IF i > Len(text) THEN <<>>
  ELSE LET e == angleMatchEnd(text, i)
       IN IF e = 0 THEN <<text[i]>> \o replaceAnglesFrom(text, i + 1, map)
          ELSE LET iri == SubSeq(text, i + 1, e - 1)
                   m == SubSeq(text, i, e)
                   n == IF iri \in DOMAIN map THEN map[iri] ELSE <<>>
               IN (IF n # <<>> THEN <<"<">> \o n \o <<">">> ELSE m)
                    \o replaceAnglesFrom(text, e + 1, map)

replaceAngleIris(text, map) ==
  IF text = <<>> \/ DOMAIN map = {} THEN text
  ELSE replaceAnglesFrom(text, 1, map)

\* The bodies of the quoted literals of a text, as LITERAL_RE finds them
\* (the alphabet has neither a backslash nor a single quote)
RECURSIVE literalBodiesFrom(_, _)
literalBodiesFrom(text, i) ==
  LET quotes == {j \in i..Len(text) : text[j] = "\""}
  IN IF Cardinality(quotes) < 2 THEN <<>>
     ELSE LET a == CHOOSE k \in quotes : \A l \in quotes : k <= l
              b == CHOOSE k \in quotes \ {a} : \A l \in quotes \ {a} : k <= l
          IN <<SubSeq(text, a + 1, b - 1)>> \o literalBodiesFrom(text, b + 1)

literalBodies(text) == literalBodiesFrom(text, 1)

textFrame == <<inferVars, wipeVars, stashVars, settingVars, batchVars, queryVars>>

InitText ==
  /\ stored = {} /\ noRun /\ wipeIdle /\ stashIdle /\ settingIdle /\ batchIdle /\ queryIdle
  /\ textIn \in TextUniverse
  /\ iriMap \in IriMapUniverse
  /\ textOut = <<>>
  /\ textPc = "notCalled"

ReplaceAngleIris ==
  /\ textPc = "notCalled"
  /\ textOut' = replaceAngleIris(textIn, iriMap)
  /\ textPc' = "returned"
  /\ UNCHANGED <<textIn, iriMap>>
  /\ UNCHANGED textFrame

NextText == ReplaceAngleIris

SpecText == InitText /\ [][NextText]_vars

\* C19: replaceAngleIris does not touch literals -- the contents of every
\* quoted string literal of the output are those of the input
C19_LiteralsUntouched ==
  textPc = "returned" => literalBodies(textOut) = literalBodies(textIn)

\* ---------------------------------------------------------------------------
\* batchTransform (iri-replacement-core.js, lines 397-449)
\* ---------------------------------------------------------------------------
MaxFiles == 3

\* A file { name, text }. The text is "undefined" when the property is
\* missing, "" when empty, "unparsable" when adapter.parse rejects it
FileUniverse ==
  [name : {"a.ttl", "q.rq"}, text : {"undefined", "", "ok", "unparsable"}]
    \cup {[name |-> "", text |-> "ok"]}

BatchOptsUniverse == [adapter : BOOLEAN, detectRdfMimeByName : BOOLEAN]

\* detectInputKind by the extension of the name (its own fallback table
\* stands in for a missing detectRdfMimeByName)
detectInputKind(name) == IF name = "q.rq" THEN "sparql" ELSE "rdf-triples"

\* transformSparqlFile throws on a missing name or text
transformSparqlFileThrows(f) == f.name = "" \/ f.text = ""

\* transformRdfFile throws on a missing name or text, a missing
\* detectRdfMimeByName, a missing adapter, and when adapter.parse rejects
transformRdfFileThrows(f, opts) ==
  \/ f.name = "" \/ f.text = ""
  \/ ~opts.detectRdfMimeByName
  \/ ~opts.adapter
  \/ f.text = "unparsable"

\* Whether the body of the try block of one loop iteration throws
iterationThrows(f, opts) ==
  \/ f.text = "undefined"
  \/ IF detectInputKind(f.name) = "sparql" THEN transformSparqlFileThrows(f)
     ELSE transformRdfFileThrows(f, opts)

\* f?.name || '(unknown)'
failedName(f) == IF f.name = "" THEN "(unknown)" ELSE f.name

pushFailedDropped(res, r) == res

\* The catch block pushes one result for the file
pushFailed(res, r) == Append(res, r)

batchFrame == <<inferVars, wipeVars, stashVars, settingVars, textVars, queryVars>>

InitBatch ==
  /\ stored = {} /\ noRun /\ wipeIdle /\ stashIdle /\ settingIdle /\ textIdle /\ queryIdle
  /\ files \in UNION {[1..n -> FileUniverse] : n \in 0..MaxFiles}
  /\ batchOpts \in BatchOptsUniverse
  /\ batchIdx = 0
  /\ results = <<>>
  /\ batchPc = "notCalled"

\* The call: parseIriMappingCsv, then results = []
BatchStart ==
  /\ batchPc = "notCalled"
  /\ batchPc' = "loop"
  /\ batchIdx' = 1
  /\ results' = <<>>
  /\ UNCHANGED <<files, batchOpts>>
  /\ UNCHANGED batchFrame

\* One iteration of for (const f of files)
TransformFile ==
  /\ batchPc = "loop"
  /\ batchIdx <= Len(files)
  /\ LET f == files[batchIdx]
     IN results' = IF iterationThrows(f, batchOpts)
                   THEN pushFailed(results, [name |-> failedName(f), status |-> "failed"])
                   ELSE Append(results, [name |-> f.name, status |-> "ok"])
  /\ batchIdx' = batchIdx + 1
  /\ UNCHANGED <<files, batchOpts, batchPc>>
  /\ UNCHANGED batchFrame

\* return results
BatchReturn ==
  /\ batchPc = "loop"
  /\ batchIdx > Len(files)
  /\ batchPc' = "returned"
  /\ UNCHANGED <<files, batchOpts, batchIdx, results>>
  /\ UNCHANGED batchFrame

NextBatch == BatchStart \/ TransformFile \/ BatchReturn

SpecBatch == InitBatch /\ [][NextBatch]_vars

\* C20: batchTransform isolates per-file failures -- it returns exactly one
\* result per file, in input order, each 'ok' or 'failed'; a file is 'failed'
\* exactly when its own transformation throws, whatever happened to the others
C20_BatchIsolatesFailures ==
  batchPc = "returned" =>
    /\ Len(results) = Len(files)
    /\ \A i \in 1..Len(files) :
         /\ results[i].name = failedName(files[i])
         /\ results[i].status \in {"ok", "failed"}
         /\ (results[i].status = "failed") = iterationThrows(files[i], batchOpts)

\* A returned batch in which a failed file is followed by a transformed one
C20_Witness ==
  /\ batchPc = "returned"
  /\ Len(files) >= 2
  /\ results[1].status = "failed"
  /\ results[2].status = "ok"

\* ---------------------------------------------------------------------------
\* The novelty gate and the work queues
\* ---------------------------------------------------------------------------
\* The statements handed to enqueue by the step that leaves the current state:
\* the de-duplicated evaluator result (line 393), or the results of the
\* expanders in one iteration of processQueues (lines 269-281)
enqueueCandidates ==
  IF pc = "await"
  THEN applyConstructWithComunica(getConstructQueryForRule(rulesFiltered[ruleIdx]), rdfjsStore)
  ELSE LET c1 == drainTypes(context)
       IN expandTypesWithClosure(workTypes, classSupers)
          \cup expandPropsWithClosure(c1.wp, propSupers)
          \cup applyInverseAndSymmetric(c1.wp, symmetricProps, inversePairs)
          \cup applyDomainRange(c1.wp, domainMap, rangeMap)
          \cup applyTransitiveProps(c1.wp, transitiveProps, c1.rdfjs)

\* The step calls enqueue
enqueueStep ==
  \/ pc = "await" /\ pc' = "drain"
  \/ pc = "drain" /\ pc' = "drain" /\ (workTypes # {} \/ workProps # {})

\* C21: novelty gate -- a candidate handed to enqueue is added to the working
\* set, the overlay, the seen index and exactly one work queue if and only if
\* its key is not in the seen index; a candidate whose key is seen changes
\* none of them, and nothing but unseen candidates is added
C21_NoveltyGate ==
  [][enqueueStep =>
       LET unseen == {s \in enqueueCandidates : toNT(s) \notin seen}
       IN /\ \A s \in unseen :
               /\ st(s.s, s.p, s.o) \in baseGraph' \ baseGraph
               /\ enqueueQuad(s) \in overlayStore' \ overlayStore
               /\ toNT(s) \in seen'
               /\ (s \in workTypes') # (s \in workProps')
          /\ \A s \in enqueueCandidates \ unseen :
               /\ s \notin workTypes' /\ s \notin workProps'
               /\ (st(s.s, s.p, s.o) \in baseGraph') = (st(s.s, s.p, s.o) \in baseGraph)
               /\ (enqueueQuad(s) \in overlayStore') = (enqueueQuad(s) \in overlayStore)
          /\ baseGraph' = baseGraph \cup {st(s.s, s.p, s.o) : s \in unseen}
          /\ overlayStore' = overlayStore \cup {enqueueQuad(s) : s \in unseen}
          /\ seen' = seen \cup {toNT(s) : s \in unseen}
          /\ workTypes' \cup workProps' = unseen]_vars

\* An iteration of processQueues is about to hand enqueue both a candidate
\* whose key is seen and one whose key is new
C21_Witness ==
  /\ pc = "drain"
  /\ workProps # {}
  /\ \E s \in enqueueCandidates : toNT(s) \in seen
  /\ \E s \in enqueueCandidates : toNT(s) \notin seen

\* ---------------------------------------------------------------------------
\* Inputs whose declarations reach rdf:type through rdfs:subPropertyOf, or
\* name something that is not an absolute IRI as an inverse
\* ---------------------------------------------------------------------------
MaxSchemaInput == 3

SchemaUniverse ==
  { rec("urn:q", RDFS_SP, RDF_TYPE),
    rec("urn:x", "urn:q", "urn:A"),
    rec("urn:A", RDFS_SC, "urn:B"),
    [s |-> sym("urn:p"), p |-> sym(OWL_INV), o |-> literal("skos:D"), g |-> ""],
    rec("urn:p", RDF_TYPE, OWL_SYM),
    rec("urn:x", "urn:p", "urn:y") }

SchemaRuleLists == { <<>>, <<"symmetric">>, <<"inverse", "symmetric">> }

InitSchema ==
  /\ stored \in subsetsUpTo(SchemaUniverse, MaxSchemaInput)
  /\ rules \in SchemaRuleLists
  /\ run = 1
  /\ persist \in BOOLEAN
  /\ freshRun
  /\ componentsIdle

SpecSchema == InitSchema /\ [][Next]_vars

\* C22: closure coverage at run end -- when inferUntilStable returns, every
\* type assertion of the working set has been lifted to every absolute-IRI
\* superclass of its class, and every statement to every absolute-IRI
\* super-property of its predicate, under the frozen closures
C22_ClosureCoverage ==
  returned =>
    \A t \in baseGraph :
      /\ t.p = sym(RDF_TYPE) =>
           \A S \in mapGet(classSupers, t.o.v) :
             isAbsoluteIri(S) => toNT(st(t.s, sym(RDF_TYPE), sym(S))) \in workingKeys
      /\ \A P \in mapGet(propSupers, t.p.v) :
           isAbsoluteIri(P) => toNT(st(t.s, sym(P), t.o)) \in workingKeys

\* C23: predicate invariant -- every statement of the working set and of the
\* overlay (store of derived quads and returned graph) has a named node with
\* an absolute IRI as its predicate
C23_PredicateInvariant ==
  \A t \in baseGraph \cup overlayStore \cup overlayGraph :
    t.p.k = "NamedNode" /\ isAbsoluteIri(t.p.v)

\* C24: frozen indices -- the closure maps and the property metadata are those
\* of the initial snapshot, and no step of a run after the index build changes
\* them, whatever the run adds to the working set
C24_FrozenIndices ==
  /\ [][(pc # "load" /\ run' = run) => UNCHANGED indexVars]_vars
  /\ [](pc \notin {"load", "persisted"} =>
          LET snapshot == formulaToRdfjsStore(inputGraph)
          IN /\ classSupers = transitiveClosure(mapFromQuads(snapshot, RDFS_SC))
             /\ propSupers = transitiveClosure(mapFromQuads(snapshot, RDFS_SP))
             /\ domainMap = mapFromQuads(snapshot, RDFS_DOMAIN)
             /\ rangeMap = mapFromQuads(snapshot, RDFS_RANGE)
             /\ symmetricProps = typedSubjects(snapshot, OWL_SYM)
             /\ transitiveProps = typedSubjects(snapshot, OWL_TRANS)
             /\ inversePairs = buildInversePairs(snapshot))

\* The run has added (urn:A subClassOf urn:B) to the working set and returned;
\* classSupers has no entry for urn:A
C24_Witness ==
  /\ returned
  /\ triple("urn:A", RDFS_SC, "urn:B") \in baseGraph
  /\ toNT(triple("urn:A", RDFS_SC, "urn:B")) \notin inputKeys
  /\ "urn:A" \notin DOMAIN classSupers

\* ---------------------------------------------------------------------------
\* transitiveClosure, statement by statement (axiolotl-inference.js, lines
\* 34-49), on the rdfs:subClassOf edges of the store, as the index build of
\* the first run calls it (line 97)
\* ---------------------------------------------------------------------------
MaxCycleInput == 3

CycleUniverse ==
  { rec("urn:A", RDFS_SC, "urn:B"),
    rec("urn:B", RDFS_SC, "urn:A"),
    rec("urn:B", RDFS_SC, "urn:C"),
    rec("urn:C", RDFS_SC, "urn:C"),
    rec("urn:p", RDFS_SP, "urn:q"),
    rec("urn:q", RDFS_SP, "urn:p"),
    rec("urn:x", RDF_TYPE, "urn:A"),
    rec("urn:x", "urn:p", "urn:y"),
    rec("urn:p", RDF_TYPE, OWL_SYM) }

CycleRuleLists == { <<>>, <<"symmetric">> }

InitCycle ==
  /\ stored \in subsetsUpTo(CycleUniverse, MaxCycleInput)
  /\ rules \in CycleRuleLists
  /\ run = 1
  /\ persist = FALSE
  /\ freshRun
  /\ componentsIdle

\* The orders in which the members of a Set can be iterated
orderings(S) ==
  {q \in [1..Cardinality(S) -> S] : \A i, j \in 1..Cardinality(S) : i # j => q[i] # q[j]}

closureFrame == <<stored, callVars, historyVars,
                  wipeVars, stashVars, settingVars, textVars, batchVars, queryVars>>

\* transitiveClosure(subClassEdges) is called: const closure = new Map()
ClosureCall ==
  /\ tcPc = "notCalled"
  /\ LET edges == mapFromQuads(formulaToRdfjsStore(loadGraphFromIndexedDB(stored)), RDFS_SC)
     IN /\ tcEdges' = edges
        /\ tcPending' = DOMAIN edges
  /\ tcClosure' = emptyMap
  /\ tcPc' = "for"
  /\ UNCHANGED <<tcChild, tcStack, tcSeenLocal>>
  /\ UNCHANGED closureFrame

\* for (const [child, parents] of edges): seenLocal = new Set(), stack = [...parents]
ClosureNextEntry ==
  /\ tcPc = "for" /\ tcPending # {}
  /\ \E child \in tcPending : \E stack \in orderings(tcEdges[child]) :
       /\ tcChild' = child
       /\ tcStack' = stack
       /\ tcPending' = tcPending \ {child}
  /\ tcSeenLocal' = {}
  /\ tcPc' = "while"
  /\ UNCHANGED <<tcEdges, tcClosure>>
  /\ UNCHANGED closureFrame

\* variant: the top of the stack is read but not removed
afterPopKept(stack) == stack

\* stack.pop()
afterPop(stack) == SubSeq(stack, 1, Len(stack) - 1)

\* variant: the parents of a visited node are not pushed
parentsToPushNone(edges, node) == {}

\* const pp = edges.get(p); if (pp) pp.forEach(x => stack.push(x))
parentsToPush(edges, node) == mapGet(edges, node)

\* One iteration of while (stack.length)
ClosurePop ==
  /\ tcPc = "while" /\ tcStack # <<>>
  /\ LET node == tcStack[Len(tcStack)]
         rest == afterPop(tcStack)
     IN IF node \in tcSeenLocal
        THEN /\ tcStack' = rest
             /\ UNCHANGED tcSeenLocal
        ELSE /\ tcSeenLocal' = tcSeenLocal \cup {node}
             /\ \E pushed \in orderings(parentsToPush(tcEdges, node)) :
                  tcStack' = rest \o pushed
  /\ UNCHANGED <<tcEdges, tcPending, tcChild, tcClosure, tcPc>>
  /\ UNCHANGED closureFrame

\* closure.set(child, seenLocal)
ClosureSet ==
  /\ tcPc = "while" /\ tcStack = <<>>
  /\ tcClosure' = [k \in DOMAIN tcClosure \cup {tcChild} |->
                     IF k = tcChild THEN tcSeenLocal ELSE tcClosure[k]]
  /\ tcPc' = "for"
  /\ UNCHANGED <<tcEdges, tcPending, tcChild, tcStack, tcSeenLocal>>
  /\ UNCHANGED closureFrame

\* return closure
ClosureReturn ==
  /\ tcPc = "for" /\ tcPending = {}
  /\ tcPc' = "returned"
  /\ UNCHANGED <<tcEdges, tcPending, tcChild, tcStack, tcSeenLocal, tcClosure>>
  /\ UNCHANGED closureFrame

\* The index build of the run continues when the call has returned
LoadAfterClosure == tcPc = "returned" /\ Load

NextCycle ==
  \/ ClosureCall \/ ClosureNextEntry \/ ClosurePop \/ ClosureSet \/ ClosureReturn
  \/ LoadAfterClosure \/ Seed \/ BeginPass \/ EndPass \/ CallRule
  \/ RuleResolve \/ RuleReject \/ Drain \/ RuleDone \/ Finish \/ ReturnOverlay

\* One call with persist off; every step is a synchronous statement or the answer of the evaluator
SpecCycle == InitCycle /\ [][NextCycle]_vars /\ WF_vars(NextCycle)

\* The nodes of an edge map, and those reachable from a node by one or more edges
edgeNodes(edges) == DOMAIN edges \cup UNION {edges[a] : a \in DOMAIN edges}

reachable(edges, a) ==
  LET N == edgeNodes(edges)
  IN {b \in N : \E k \in 1..Cardinality(N) : \E path \in [1..(k + 1) -> N] :
                  /\ path[1] = a /\ path[k + 1] = b
                  /\ \A i \in 1..k : path[i + 1] \in mapGet(edges, path[i])}

\* C25: transitiveClosure result -- the returned map has an entry exactly for
\* the nodes with a direct parent; the entry of a child is the set of nodes
\* reachable from it by one or more edges, so the child is in its own entry
\* exactly when it lies on a cycle; the closure the run uses is this map
C25_TransitiveClosureResult ==
  /\ tcPc = "returned" =>
       /\ DOMAIN tcClosure = {n \in edgeNodes(tcEdges) : mapGet(tcEdges, n) # {}}
       /\ \A child \in DOMAIN tcClosure :
            /\ tcClosure[child] = reachable(tcEdges, child)
            /\ (child \in tcClosure[child]) =
                 (\E n \in mapGet(tcEdges, child) : n = child \/ child \in reachable(tcEdges, n))
  /\ (run = 1 /\ pc \notin {"load", "persisted"}) => classSupers = tcClosure

\* A two-node cycle with a way out: each of urn:A and urn:B reaches all three
\* nodes, itself included; urn:C has no parent and no entry
C25_Witness ==
  /\ tcPc = "returned"
  /\ DOMAIN tcClosure = {"urn:A", "urn:B"}
  /\ tcClosure["urn:A"] = {"urn:A", "urn:B", "urn:C"}
  /\ tcClosure["urn:B"] = {"urn:A", "urn:B", "urn:C"}

\* C26: termination on cycles -- every call of transitiveClosure returns, and
\* every run, also on a cyclic subclass or subproperty hierarchy, returns
\* unless the evaluator rejected
C26_ClosureTerminates ==
  /\ (tcPc = "for") ~> (tcPc = "returned")
  /\ (tcPc = "returned" /\ pc = "load") ~> (pc = "done" \/ rejected)
  /\ [](pc = "failed" => rejected)

\* A run over a two-cycle of classes has returned, with the instance of one
\* class lifted to the other
C26_Witness ==
  /\ returned
  /\ tcPc = "returned"
  /\ "urn:A" \in mapGet(tcClosure, "urn:A")
  /\ "urn:A" \in mapGet(classSupers, "urn:A")
  /\ triple("urn:x", RDF_TYPE, "urn:B") \in overlayGraph

\* C27: queues empty between rule evaluations -- whenever the external
\* evaluator is invoked or awaited, between two rules, and when
\* inferUntilStable has returned, workTypes and workProps are both empty
C27_QueuesEmptyBetweenRules ==
  /\ pc \in {"rule", "await", "loop", "done"} => (workTypes = {} /\ workProps = {})
  /\ [][(evalCalls' # evalCalls /\ run' = run) => (workTypes = {} /\ workProps = {})]_vars

\* The evaluator is invoked after an earlier rule's results were queued and
\* drained
C27_Witness ==
  /\ pc = "await"
  /\ totalAdded > 0
  /\ Len(evalCalls) >= 2
  /\ workTypes = {} /\ workProps = {}

\* ---------------------------------------------------------------------------
\* Runs in which both queues are filled, by the evaluator and by the expanders
\* ---------------------------------------------------------------------------
MaxDrainInput == 4

DrainUniverse ==
  { rec("urn:p", RDFS_DOMAIN, "urn:A"),
    rec("urn:A", RDFS_SC, "urn:B"),
    rec("urn:p", RDFS_SP, "urn:q"),
    rec("urn:p", RDF_TYPE, OWL_SYM),
    rec("urn:p", RDF_TYPE, OWL_TRANS),
    rec("urn:x", "urn:p", "urn:y"),
    rec("urn:y", "urn:p", "urn:z") }

DrainRuleLists == { <<>>, <<"domain">>, <<"symmetric", "domain">> }

InitDrain ==
  /\ stored \in subsetsUpTo(DrainUniverse, MaxDrainInput)
  /\ rules \in DrainRuleLists
  /\ run = 1
  /\ persist \in BOOLEAN
  /\ freshRun
  /\ componentsIdle

SpecDrain == InitDrain /\ [][Next]_vars /\ WF_vars(Next)

\* How often a statement is recorded in a history
timesIn(log, s) == IF s \in DOMAIN log THEN log[s] ELSE 0

\* C28: drain to local fixpoint -- a statement that passes the novelty gate
\* is pushed on a queue once in the whole run, and no other statement with
\* its key ever is; while it waits in its queue no expander has had it, and
\* once it has left, a type assertion was given to expandTypesWithClosure
\* once and any other statement to the four property expanders once; this
\* has happened to every queued statement before the next evaluator call and
\* at return; processQueues is left only with both queues empty, and it is
\* always left
C28_DrainToLocalFixpoint ==
  /\ [](\A s \in DOMAIN placed :
          /\ placed[s] = 1
          /\ \A t \in DOMAIN placed : toNT(s) = toNT(t) => s = t
          /\ IF s \in workTypes \cup workProps
             THEN timesIn(handedTypes, s) = 0 /\ timesIn(handedProps, s) = 0
             ELSE IF s.p.v = RDF_TYPE
                  THEN timesIn(handedTypes, s) = 1 /\ timesIn(handedProps, s) = 0
                  ELSE timesIn(handedTypes, s) = 0 /\ timesIn(handedProps, s) = 1)
  /\ [](DOMAIN handedTypes \cup DOMAIN handedProps \subseteq DOMAIN placed)
  /\ [](pc \in {"rule", "await", "loop", "done"} =>
          \A s \in DOMAIN placed : timesIn(handedTypes, s) + timesIn(handedProps, s) = 1)
  /\ [][(pc = "drain" /\ pc' # "drain") => (workTypes' = {} /\ workProps' = {})]_vars
  /\ (pc = "drain") ~> (pc = "rule")

\* Between two rules: a type assertion and another statement have each been
\* queued and expanded, one of them queued by an expander
C28_Witness ==
  /\ pc = "rule"
  /\ timesIn(handedProps, triple("urn:y", "urn:p", "urn:x")) = 1
  /\ timesIn(handedTypes, triple("urn:y", RDF_TYPE, "urn:A")) = 1
  /\ timesIn(handedTypes, triple("urn:y", RDF_TYPE, "urn:B")) = 1
  /\ workTypes = {} /\ workProps = {}

\* C29: queue routing -- every statement waiting in workTypes has the
\* predicate rdf:type and none waiting in workProps has it; every waiting
\* statement has its key in the seen index, is in the working set and has
\* its quad in the overlay
C29_QueueRouting ==
  /\ \A s \in workTypes : s.p.v = RDF_TYPE
  /\ \A s \in workProps : s.p.v # RDF_TYPE
  /\ \A s \in workTypes \cup workProps :
       /\ toNT(s) \in seen
       /\ st(s.s, s.p, s.o) \in baseGraph
       /\ enqueueQuad(s) \in overlayStore

\* Both queues hold a statement pushed by the property expanders
C29_Witness ==
  /\ pc = "drain"
  /\ triple("urn:y", RDF_TYPE, "urn:A") \in workTypes
  /\ triple("urn:y", "urn:q", "urn:x") \in workProps

\* C30: monotonic growth -- no step of a run removes a key from the seen
\* index, a statement from the working set or a quad from the overlay, and
\* once the store is loaded the key of every statement of the working set
\* is in the seen index
C30_MonotonicGrowth ==
  /\ [][run' = run =>
          /\ seen \subseteq seen'
          /\ baseGraph \subseteq baseGraph'
          /\ overlayStore \subseteq overlayStore']_vars
  /\ [](pc # "load" => \A s \in baseGraph : toNT(s) \in seen)

\* A run has returned in which the seed phase and a rule both added
\* statements to the loaded ones
C30_Witness ==
  /\ returned
  /\ seeded # {}
  /\ totalAdded > 0
  /\ Cardinality(overlayStore) >= 2
  /\ Cardinality(baseGraph) >= Cardinality(inputGraph) + 2

\* ---------------------------------------------------------------------------
\* Runs over inputs with literal objects
\* ---------------------------------------------------------------------------
MaxLiteralInput == 4

recLit(s, p, o) == [s |-> sym(s), p |-> sym(p), o |-> literal(o), g |-> ""]

LiteralUniverse ==
  { rec("urn:x", "urn:p", "urn:y"),
    recLit("urn:y", "urn:p", "lit"),
    recLit("urn:x", "urn:p", "skos:D"),
    rec("urn:p", RDF_TYPE, OWL_TRANS),
    rec("urn:p", RDF_TYPE, OWL_SYM),
    rec("urn:p", RDFS_RANGE, "urn:B") }

LiteralRuleLists == { <<>>, <<"transitive">>, <<"symmetric", "transitive">> }

InitLiteral ==
  /\ stored \in subsetsUpTo(LiteralUniverse, MaxLiteralInput)
  /\ rules \in LiteralRuleLists
  /\ run = 1
  /\ persist = FALSE
  /\ freshRun
  /\ componentsIdle

\* baseGraph.add(s.subject, s.predicate, s.object) in enqueue, for a statement
\* an expander built with a literal in subject position: the rdflib.js builds
\* that test the subject throw 'Subject is not a subject type', the others
\* store the statement
subjectRefused(stmts) == \E s \in stmts : s.s.k = "Literal"

\* $rdf.sym(value) in applyTransitiveProps, for the value of a literal or of a
\* blank node: the rdflib.js builds that validate the IRI throw when it holds
\* no ':', the others build the NamedNode
namedNodeRefused(v) == v \in WordValues \cup {"b1", "b2", "s", "o"}

\* The values applyTransitiveProps passes to $rdf.sym
transitiveSymArgs(newPropsBatch, transProps, store) ==
  LET batch == {b \in newPropsBatch : b.p.v \in transProps}
  IN {pr[2].o.v : pr \in {pr \in batch \X store :
                             pr[2].s = pr[1].o /\ pr[2].p = sym(pr[1].p.v)}}
     \cup
     {pr[2].s.v : pr \in {pr \in batch \X store :
                             pr[2].o = pr[1].s /\ pr[2].p = sym(pr[1].p.v)}}

\* The exception leaves the expander or enqueue, processQueues and
\* inferUntilStable; none of them catches it
DrainThrows ==
  /\ pc = "drain"
  /\ whileCondition(workTypes, workProps)
  /\ ~subjectRefused(baseGraph)
  /\ \A s \in baseGraph : s.o.k = "NamedNode" => ~namedNodeRefused(s.o.v)
  /\ \/ subjectRefused(processQueuesStep(context).base)
     \/ \E v \in transitiveSymArgs(workProps, transitiveProps, drainTypes(context).rdfjs) :
          namedNodeRefused(v)
  /\ pc' = "failed"
  /\ UNCHANGED <<stored, rules, run, baseGraph, seen, overlayStore, rdfjsStore, indexVars,
                 workTypes, workProps, totalAdded, changed, ruleIdx, beforeSeenSize,
                 overlayGraph, seeded, evalCalls, seenAtPassStart>>
  /\ UNCHANGED <<persist, storeWrites, rejected>>
  /\ UNCHANGED componentVars

NextLiteral ==
  \/ Load \/ Seed \/ BeginPass \/ EndPass \/ CallRule
  \/ RuleResolve \/ RuleReject \/ Drain \/ DrainThrows \/ RuleDone \/ Finish
  \/ ReturnOverlay

\* One call with persist off
SpecLiteral == InitLiteral /\ [][NextLiteral]_vars

\* The keys of the store handed to the evaluator
rdfjsKeys == {toNT(q) : q \in rdfjsStore}

workingState == <<baseGraph, seen, overlayStore, rdfjsStore, workTypes, workProps>>

\* C32: sequential evaluation -- while an evaluator call is outstanding no
\* second call is made and the working set, the seen index, the overlay and
\* the queues stay as they are until the call is settled; the calls of a run
\* follow the list of selected rules in order, pass after pass; and when a
\* call is made everything queued before it has been drained
C32_SequentialEvaluation ==
  /\ [][(pc = "await" /\ pc' = "await") => (evalCalls' = evalCalls /\ UNCHANGED workingState)]_vars
  /\ [][(pc = "await" /\ pc' = "failed") => UNCHANGED workingState]_vars
  /\ [][(evalCalls' # evalCalls /\ run' = run) =>
          /\ pc # "await" /\ pc' = "await"
          /\ Len(evalCalls') = Len(evalCalls) + 1
          /\ UNCHANGED workingState
          /\ workTypes = {} /\ workProps = {}
          /\ \A s \in DOMAIN placed : timesIn(handedTypes, s) + timesIn(handedProps, s) = 1]_vars
  /\ [](\A i \in 1..Len(evalCalls) :
          evalCalls[i] = rulesFiltered[((i - 1) % Len(rulesFiltered)) + 1])

\* The second rule of the list is called in the second pass, after the
\* results of earlier calls were drained
C32_Witness ==
  /\ pc = "await"
  /\ Len(rulesFiltered) >= 2
  /\ Len(evalCalls) = Len(rulesFiltered) + 2
  /\ totalAdded > 0
  /\ DOMAIN placed # {}

\* What applyTransitiveProps returns in the next iteration of processQueues
emittedTransitive ==
  applyTransitiveProps(workProps, transitiveProps, drainTypes(context).rdfjs)

\* C33: applyTransitiveProps composes with the full working set -- for a batch
\* statement (x, p, y) with p transitive it emits (x, p, z) for every
\* (y, p, z) of the working set and (w, p, y) for every (w, p, x) of the
\* working set, whether or not that statement is in the batch; every emitted
\* statement has a transitive predicate
C33_TransitiveComposes ==
  (pc = "drain" /\ workProps # {}) =>
     /\ \A s \in workProps : s.p.v \in transitiveProps =>
          /\ \A yz \in baseGraph : (yz.s = s.o /\ yz.p = s.p) =>
                st(s.s, s.p, yz.o) \in emittedTransitive
          /\ \A wx \in baseGraph : (wx.o = s.s /\ wx.p = s.p) =>
                st(wx.s, s.p, s.o) \in emittedTransitive
     /\ \A e \in emittedTransitive : e.p.v \in transitiveProps

\* ---------------------------------------------------------------------------
\* Runs over hierarchies and domain / range maps with values that are not
\* absolute IRIs next to values that are
\* ---------------------------------------------------------------------------
MaxGuardInput == 4

GuardUniverse ==
  { rec("urn:A", RDFS_SC, "urn:B"),
    rec("urn:A", RDFS_SC, "skos:D"),
    rec("urn:x", RDF_TYPE, "urn:A"),
    rec("urn:p", RDFS_SP, "urn:q"),
    recLit("urn:p", RDFS_SP, "lit"),
    rec("urn:p", RDFS_DOMAIN, "urn:A"),
    recLit("urn:p", RDFS_RANGE, "skos:D"),
    rec("urn:p", RDF_TYPE, OWL_SYM),
    rec("urn:x", "urn:p", "urn:y") }

GuardRuleLists == { <<>>, <<"symmetric">> }

InitGuard ==
  /\ stored \in subsetsUpTo(GuardUniverse, MaxGuardInput)
  /\ rules \in GuardRuleLists
  /\ run = 1
  /\ persist \in BOOLEAN
  /\ freshRun
  /\ componentsIdle

SpecGuard == InitGuard /\ [][Next]_vars /\ WF_vars(Next)

\* The batches the expanders are called with: the loaded statements in the
\* seed phase, the queues in processQueues
typesBatch == IF pc = "seed" THEN {x \in baseGraph : x.p.v = RDF_TYPE} ELSE workTypes
propsBatch == IF pc = "seed" THEN {x \in baseGraph : x.p.v # RDF_TYPE} ELSE workProps

\* C34: malformed-identifier guard -- whenever expandTypesWithClosure,
\* expandPropsWithClosure or applyDomainRange is called, no emitted statement
\* has a lifted class or property that is not an absolute IRI, every value of
\* the closure or map that is one is emitted, the values that are not are
\* the ones counted as skipped, no call throws, and the run goes on to its
\* return unless the evaluator rejects
C34_MalformedIdentifierGuard ==
  /\ [](pc \in {"seed", "drain"} =>
         LET eT == expandTypesWithClosure(typesBatch, classSupers)
             eP == expandPropsWithClosure(propsBatch, propSupers)
             eD == applyDomainRange(workProps, domainMap, rangeMap)
         IN /\ \A e \in eT : e.o.k = "NamedNode" /\ isAbsoluteIri(e.o.v)
            /\ \A e \in eP : e.p.k = "NamedNode" /\ isAbsoluteIri(e.p.v)
            /\ \A e \in eD : e.o.k = "NamedNode" /\ isAbsoluteIri(e.o.v)
            /\ \A s \in typesBatch : \A sup \in mapGet(classSupers, s.o.v) :
                 isAbsoluteIri(sup) => st(s.s, sym(RDF_TYPE), sym(sup)) \in eT
            /\ \A s \in propsBatch : \A sup \in mapGet(propSupers, s.p.v) :
                 isAbsoluteIri(sup) => st(s.s, sym(sup), s.o) \in eP
            /\ \A s \in workProps :
                 /\ \A d \in mapGet(domainMap, s.p.v) :
                      isAbsoluteIri(d) => st(s.s, sym(RDF_TYPE), sym(d)) \in eD
                 /\ \A r \in mapGet(rangeMap, s.p.v) :
                      isAbsoluteIri(r) => st(s.o, sym(RDF_TYPE), sym(r)) \in eD
            /\ skipped(typesBatch, classSupers, LAMBDA s : s.o.v) =
                 Cardinality({pr \in typesBatch \X {"skos:D", "lit"} :
                                pr[2] \in mapGet(classSupers, pr[1].o.v)})
            /\ skipped(propsBatch, propSupers, LAMBDA s : s.p.v) =
                 Cardinality({pr \in propsBatch \X {"skos:D", "lit"} :
                                pr[2] \in mapGet(propSupers, pr[1].p.v)}))
  /\ [](pc = "drain" => ~subjectRefused(processQueuesStep(context).base))
  /\ [](pc = "failed" => rejected)
  /\ (pc = "load") ~> (pc = "done" \/ rejected)

\* A run has returned in which a class with a CURIE and an IRI among its
\* superclasses was lifted to the IRI only
C34_Witness ==
  /\ returned
  /\ mapGet(classSupers, "urn:A") = {"urn:B", "skos:D"}
  /\ triple("urn:x", RDF_TYPE, "urn:B") \in overlayGraph
  /\ \A s \in baseGraph : s.o.v # "skos:D" \/ s.p.v = RDFS_SC

\* What the one-shot lift over the loaded statements produces
seedLifts ==
  expandPropsWithClosure({x \in baseGraph : x.p.v # RDF_TYPE}, propSupers)
  \cup expandTypesWithClosure({x \in baseGraph : x.p.v = RDF_TYPE}, classSupers)

\* C35: the seed phase records its lifts without queueing them -- the seed
\* step adds every lifted statement whose key is new to the working set, the
\* overlay and the seen index and leaves both queues alone; no statement
\* with the key of a seed lift is ever pushed on a queue or handed to an
\* expander in the run; both queues are empty when the outer loop starts
C35_SeedRecordsWithoutQueueing ==
  /\ [][pc = "seed" =>
          /\ \A s \in seedLifts : toNT(s) \notin seen =>
               /\ st(s.s, s.p, s.o) \in baseGraph'
               /\ seedQuad(s) \in overlayStore'
               /\ toNT(s) \in seen'
               /\ s \in seeded'
          /\ \A s \in seeded' : s \in seedLifts /\ toNT(s) \notin seen
          /\ UNCHANGED <<workTypes, workProps, placed, handedTypes, handedProps>>]_vars
  /\ [](\A s \in seeded : \A t \in DOMAIN placed \cup DOMAIN handedTypes \cup DOMAIN handedProps
                                   \cup workTypes \cup workProps : toNT(t) # toNT(s))
  /\ [](pc = "loop" => (workTypes = {} /\ workProps = {}))

\* A run has returned in which the seed lifted statements and the rules
\* queued others
C35_Witness ==
  /\ returned
  /\ seeded # {}
  /\ \E s \in DOMAIN placed : placed[s] = 1 /\ s \notin seeded
  /\ \A s \in seeded : toNT(s) \in seen /\ s \in baseGraph

\* The owl:inverseOf declarations of the input
inverseDeclarations == {d \in inputGraph : d.p.v = OWL_INV}

\* What applyInverseAndSymmetric returns for the property batch of the drain
emittedInverse == applyInverseAndSymmetric(workProps, symmetricProps, inversePairs)

\* C36: the inverse index is two-way -- once built, q is in inversePairs[p]
\* exactly when p is in inversePairs[q], each declaration p owl:inverseOf q
\* of the input is recorded under both keys, and applyInverseAndSymmetric
\* emits (y, p, x) for a batch statement (x, q, y) as well as (y, q, x) for a
\* batch statement (x, p, y)
C36_InverseIndexTwoWay ==
  /\ \A p \in DOMAIN inversePairs : \A q \in inversePairs[p] :
       q \in DOMAIN inversePairs /\ p \in inversePairs[q]
  /\ pc \in {"seed", "loop", "rule", "await", "drain"} =>
       \A d \in inverseDeclarations :
         /\ d.s.v \in DOMAIN inversePairs /\ d.o.v \in inversePairs[d.s.v]
         /\ d.o.v \in DOMAIN inversePairs /\ d.s.v \in inversePairs[d.o.v]
  /\ pc = "drain" =>
       \A d \in inverseDeclarations : \A s \in workProps :
         /\ s.p.v = d.o.v => st(s.o, sym(d.s.v), s.s) \in emittedInverse
         /\ s.p.v = d.s.v => st(s.o, sym(d.o.v), s.s) \in emittedInverse

\* A drain whose batch holds a statement of the declared inverse q of
\* p owl:inverseOf q, answered with the p statement in the other direction
C36_Witness ==
  /\ pc = "drain"
  /\ \E d \in inverseDeclarations : \E s \in workProps :
       /\ d.s.v # d.o.v
       /\ s.p.v = d.o.v
       /\ st(s.o, sym(d.s.v), s.s) \in emittedInverse
       /\ d.s.v \in inversePairs[d.o.v]

\* ---------------------------------------------------------------------------
\* The run-query handler of the query page (axiolotl-query.js, lines 1055-1189)
\* A query text is a sequence of lines, a line a sequence of tokens.
\* ---------------------------------------------------------------------------
MaxRunClicks == 2

\* Tokens that the two declaration patterns of getQueryKind match
Declarations == {"PREFIX ex: <u>", "BASE <u>"}

\* /^(INSERT|DELETE|WITH|LOAD|CLEAR|CREATE|DROP|COPY|MOVE|ADD)\b/i
UpdateKeywords == {"INSERT", "DELETE", "WITH", "LOAD", "CLEAR", "CREATE", "DROP", "COPY", "MOVE", "ADD"}

\* /^(SELECT|ASK|CONSTRUCT|DESCRIBE)\b/i
ReadKeywords == {"SELECT", "ASK", "CONSTRUCT", "DESCRIBE"}

\* Editor contents: a declaration the pattern \w+: does not match, two
\* declarations on one line, a keyword inside a comment, an empty editor
QueryUniverse ==
  { <<>>,
    << <<"SELECT">> >>,
    << <<"INSERT">> >>,
    << <<"#", "INSERT">>, <<"ASK">> >>,
    << <<"#", "SELECT">>, <<"BASE <u>">>, <<"DELETE">> >>,
    << <<"PREFIX ex: <u>", "PREFIX ex: <u>", "INSERT">> >>,
    << <<"PREFIX : <u>">>, <<"INSERT">> >>,
    << <<"CLEAR">> >>,
    << <<"FOO">> >> }

PrefixUniverse == { <<>>, <<"rdfs">>, <<"nope", "rdfs">> }

\* commonSPARQLPrefixes[pfx], undefined for a key it does not hold
commonSPARQLPrefixes(pfx) == IF pfx \in {"rdf", "rdfs", "owl"} THEN <<"PREFIX ex: <u>">> ELSE <<>>

\* prefixes.map(pfx => commonSPARQLPrefixes[pfx]).filter(Boolean).join('\n'),
\* then `${prefixHeader}\n${queryText}`
buildQuery(prefixes, queryText) ==
  LET header == SelectSeq([i \in DOMAIN prefixes |-> commonSPARQLPrefixes(prefixes[i])],
                          LAMBDA l : l # <<>>)
  IN (IF header = <<>> THEN << <<>> >> ELSE header) \o queryText

\* s.replace(/^\s*#.*$/mg, '')
stripComments(q) ==
  [i \in DOMAIN q |-> IF q[i] # <<>> /\ Head(q[i]) = "#" THEN <<>> ELSE q[i]]

\* s.replace(/^(?:\s*(?:PREFIX\s+\w+:\s*<[^>]+>|BASE\s*<[^>]+>))+?/img, ''):
\* the lazy quantifier takes one declaration at the start of each line
stripDeclarations(q) ==
  [i \in DOMAIN q |-> IF q[i] # <<>> /\ Head(q[i]) \in Declarations THEN Tail(q[i]) ELSE q[i]]

RECURSIVE joinLines(_)
joinLines(q) == IF q = <<>> THEN <<>> ELSE Head(q) \o joinLines(Tail(q))

getQueryKind(q) ==
  LET s == joinLines(stripDeclarations(stripComments(q)))
  IN IF s = <<>> THEN "UNKNOWN"
     ELSE IF Head(s) \in UpdateKeywords THEN "UPDATE"
     ELSE IF Head(s) \in ReadKeywords THEN "READ"
     ELSE "UNKNOWN"

\* variant: only the second test is made
validateModeVsQueryWriteOnly(kind, mode) ==
  IF mode = "write" /\ kind # "UPDATE"
  THEN [ok |-> FALSE, reason |-> "This is a read query. Switch to Read mode."]
  ELSE [ok |-> TRUE, reason |-> "none"]

validateModeVsQuery(kind, mode) ==
  IF mode = "read" /\ kind = "UPDATE"
  THEN [ok |-> FALSE, reason |-> "This query modifies data. Switch to Write mode."]
  ELSE IF mode = "write" /\ kind # "UPDATE"
  THEN [ok |-> FALSE, reason |-> "This is a read query. Switch to Read mode."]
  ELSE [ok |-> TRUE, reason |-> "none"]

\* /\b(CLEAR|DROP|LOAD|CREATE|COPY|MOVE|ADD)\b/i.test(query)
looksAdministrative(q) ==
  \E i \in DOMAIN q : \E j \in DOMAIN q[i] :
    q[i][j] \in {"CLEAR", "DROP", "LOAD", "CREATE", "COPY", "MOVE", "ADD"}

\* makePreviewConstructs(query).length > 0: after the comments are removed
\* the text has to begin with INSERT or DELETE
hasPreviewConstructs(q) ==
  LET s == joinLines(stripComments(q))
  IN s # <<>> /\ Head(s) \in {"INSERT", "DELETE"}

uiMode == IF modeWrite THEN "write" ELSE "read"

\* One query handed to an engine or an endpoint, with the state of the mode
\* radios at that moment
execution(q, target, by) == [query |-> q, mode |-> uiMode, target |-> target, by |-> by]

queryFrame == <<inferVars, wipeVars, stashVars, settingVars, textVars, batchVars>>

InitQuery ==
  /\ stored = {} /\ noRun /\ wipeIdle /\ stashIdle /\ settingIdle /\ textIdle /\ batchIdle
  /\ sparqlQuery \in QueryUniverse
  /\ activePrefixes \in PrefixUniverse
  /\ modeWrite = FALSE /\ endpointRadio = FALSE /\ writeActionRadio = "preview"
  /\ executed = {} /\ runClicks = 0 /\ toast = "none"

\* The user edits the query or picks a radio
EditQuery ==
  /\ sparqlQuery' \in QueryUniverse \ {sparqlQuery}
  /\ UNCHANGED <<activePrefixes, modeWrite, endpointRadio, writeActionRadio, executed, runClicks, toast>>
  /\ UNCHANGED queryFrame

ModeChange ==
  /\ modeWrite' = ~modeWrite
  /\ UNCHANGED <<sparqlQuery, activePrefixes, endpointRadio, writeActionRadio, executed, runClicks, toast>>
  /\ UNCHANGED queryFrame

SourceChange ==
  /\ endpointRadio' = ~endpointRadio
  /\ UNCHANGED <<sparqlQuery, activePrefixes, modeWrite, writeActionRadio, executed, runClicks, toast>>
  /\ UNCHANGED queryFrame

WriteActionChange ==
  /\ writeActionRadio' \in {"preview", "commit", "other"} \ {writeActionRadio}
  /\ UNCHANGED <<sparqlQuery, activePrefixes, modeWrite, endpointRadio, executed, runClicks, toast>>
  /\ UNCHANGED queryFrame

\* Lines 1055-1189, up to the call that hands the query over
RunQueryClick ==
  /\ runClicks < MaxRunClicks
  /\ runClicks' = runClicks + 1
  /\ \E confirmed \in BOOLEAN :
       LET useEndpoint == endpointRadio
           isWriteMode == modeWrite
           query == buildQuery(activePrefixes, sparqlQuery)
           kind == getQueryKind(query)
           check == validateModeVsQuery(kind, IF isWriteMode THEN "write" ELSE "read")
       IN IF ~check.ok
          THEN toast' = check.reason /\ executed' = executed
          ELSE IF ~isWriteMode
          THEN /\ executed' = executed \cup
                    {IF useEndpoint THEN execution(query, "endpoint", "runQueryOnEndpoint")
                                    ELSE execution(query, "database", "runQueryOnDatabase")}
               /\ toast' = "Query finished."
          ELSE IF useEndpoint
          THEN /\ toast' = "Update queries against a remote endpoint are not supported in this UI. Switch to local database."
               /\ executed' = executed
          ELSE IF looksAdministrative(query) /\ ~confirmed
          THEN toast' = "Canceled." /\ executed' = executed
          ELSE IF writeActionRadio = "preview"
          THEN IF ~hasPreviewConstructs(query)
               THEN toast' = "No preview available for this UPDATE shape." /\ executed' = executed
               ELSE /\ executed' = executed \cup {execution(query, "database", "runConstructPreview")}
                    /\ toast' = "Preview generated."
          ELSE IF writeActionRadio = "commit"
          THEN IF ~hasPreviewConstructs(query)
               THEN toast' = "Unsupported UPDATE shape for commit." /\ executed' = executed
               ELSE /\ executed' = executed \cup {execution(query, "database", "commitUpdateByMaterialization")}
                    /\ toast' = "Committed update"
          ELSE toast' = "Unknown write action." /\ executed' = executed
  /\ UNCHANGED <<sparqlQuery, activePrefixes, modeWrite, endpointRadio, writeActionRadio>>
  /\ UNCHANGED queryFrame

NextQuery == EditQuery \/ ModeChange \/ SourceChange \/ WriteActionChange \/ RunQueryClick

SpecQuery == InitQuery /\ [][NextQuery]_vars

\* C37: the mode gate of the run-query handler -- a query that getQueryKind
\* classifies UPDATE is never handed over while the page is in read mode, a
\* query it does not classify UPDATE is never handed over in write mode,
\* and in write mode nothing goes to a remote endpoint
C37_QueryModeGate ==
  \A e \in executed :
    /\ e.mode = "read" => getQueryKind(e.query) # "UPDATE"
    /\ e.mode = "write" => (getQueryKind(e.query) = "UPDATE" /\ e.target # "endpoint")

\* An update went through in write mode and a later click on an update in
\* read mode was turned away
C37_Witness ==
  /\ \E e \in executed : e.mode = "write" /\ getQueryKind(e.query) = "UPDATE"
  /\ ~modeWrite
  /\ getQueryKind(buildQuery(activePrefixes, sparqlQuery)) = "UPDATE"
  /\ toast = "This query modifies data. Switch to Write mode."
  /\ runClicks = 2

\* C38: rule selection bounds the output -- a run with an empty rule list
\* returns an empty overlay and totalAdded = 0
C38_EmptyRuleListDerivesNothing ==
  (returned /\ rules = <<>>) => (overlayGraph = {} /\ totalAdded = 0)

\* C39: the local expanders preserve term kinds -- every statement emitted by
\* applyTransitiveProps takes its subject from one statement and its object
\* from another, chained through the shared middle term, with kind and value
\* unchanged: a literal or anonymous-node end point never becomes an
\* identifier
C39_TermKindsPreserved ==
  pc = "drain" =>
    \A e \in emittedTransitive :
      \E s \in workProps : \E w \in drainTypes(context).rdfjs :
        /\ w.p = s.p /\ e.p = s.p
        /\ \/ (w.s = s.o /\ e.s = s.s /\ e.o = w.o)
           \/ (w.o = s.s /\ e.s = w.s /\ e.o = s.o)

====
